---- MODULE Spec2Model ----
(***************************************************************************)
(* Model of the scoring engine of Git-Hired (backend/app.py and            *)
(* backend/analyzer.py).                                                   *)
(*                                                                         *)
(* Numbers.  Python floats are modelled as exact rationals <<n, d>> in     *)
(* lowest terms with d > 0.  The pair <<0, 0>> stands for the result of a  *)
(* division by zero (Python raises ZeroDivisionError); it propagates       *)
(* through the arithmetic and the handler that computed it takes its       *)
(* exception path.                                                         *)
(*                                                                         *)
(* Text.  A Python str is a sequence of one-character strings.             *)
(***************************************************************************)
EXTENDS Integers, Sequences, FiniteSets, TLC

VARIABLES
    \* ---- match_single_candidate (app.py 794-874) ----
    request,                \* the JSON body of the POST request
    mpc,                    \* position of the handler
    required_skills,        \* lower-cased list
    nice_to_have,           \* lower-cased list
    all_job_skills,         \* list(set(...)), order irrelevant: a set
    top_repos,
    repo_matches,
    weighted_scores,
    total_weight,
    total_match_percentage,
    response,
    \* ---- the file scorers (analyzer.py 110-181, 333-395) ----
    file,                   \* the file at file_path
    fpc,                    \* which scorer runs, or "idle" / "done"
    file_result,            \* the dict the scorer returns
    \* ---- analyze_repo_githired (analyzer.py 183-277) ----
    repo_input,             \* what the clone of the repository holds
    rpc,                    \* position of the call
    temp_dir,               \* "none", "exists" or "removed"
    walked,                 \* folders os.walk has yielded so far
    html_scores,
    css_scores,
    lizard_scores,
    file_count,
    folder_count,
    weights,
    outcome,                \* the value returned or the exception raised
    \* ---- analyze_user_code_quality (analyzer.py 37-83) ----
    user_repos,             \* what get_repos() yields, in order
    upc,                    \* position of the call
    next_repo,              \* repositories the loop has taken so far
    results,
    tmp_dirs,               \* temporary directories that exist now
    cloned,                 \* calls of Repo.clone_from so far
    user_outcome,           \* the value returned or the exception raised
    \* ---- extract_avg_ccn_from_lizard_output (analyzer.py 103-108) ----
    report,                 \* the text handed to the function
    lpc,
    ccn_score,              \* the value returned or the exception raised
    \* ---- get_activity_score (app.py 1090-1265) ----
    activity_input,         \* what the GitHub API answers
    apc,                    \* position of the handler
    account_age_months,
    total_commits,
    recent_activity_count,
    active_repos,
    sub_scores,             \* the five sub-scores before rounding
    final_score,
    activity_response,
    \* ---- extract_skills_from_text (app.py 212-241) ----
    text_input,             \* the text, or None
    spc,
    found_skills,           \* the list returned, as the sequence of its elements
    \* ---- match_single_candidate_ai (app.py 876-1016) ----
    ai_request,             \* the JSON body of the POST request
    gpc,                    \* position of the handler
    ai_next,                \* index of the repository the loop is at
    ai_answers,             \* what the calls of the AI source produced so far
    ai_repo_matches,        \* repo_matches
    ai_total,               \* total_match_percentage
    ai_response,            \* the HTTP answer
    \* ---- detect_comment_lines (analyzer.py 333-350) ----
    comment_input,          \* the lines of a file, as readlines() gives them, and its extension
    cpc,
    comment_count,          \* the number returned
    \* ---- analyze_user_repos (analyzer.py 279-305), get_code_proficiency (app.py 1540-1614) ----
    prof_input,             \* the function called and the user's repositories
    ppc,
    prof_next,              \* number of repositories the loop has passed
    prof_analysed,          \* the repositories analyze_repo_githired was called on
    prof_scores,            \* repo_scores
    prof_details,           \* detailed_results
    prof_count,             \* count (get_code_proficiency only)
    prof_response

mvars == << request, mpc, required_skills, nice_to_have, all_job_skills,
            top_repos, repo_matches, weighted_scores, total_weight,
            total_match_percentage, response >>

fvars == << file, fpc, file_result >>

rvars == << repo_input, rpc, temp_dir, walked, html_scores, css_scores, lizard_scores,
            file_count, folder_count, weights, outcome >>

uvars == << user_repos, upc, next_repo, results, tmp_dirs, cloned, user_outcome >>

lvars == << report, lpc, ccn_score >>

avars == << activity_input, apc, account_age_months, total_commits, recent_activity_count,
            active_repos, sub_scores, final_score, activity_response >>

svars == << text_input, spc, found_skills >>

gvars == << ai_request, gpc, ai_next, ai_answers, ai_repo_matches, ai_total, ai_response >>

cvars == << comment_input, cpc, comment_count >>

pvars == << prof_input, ppc, prof_next, prof_analysed, prof_scores, prof_details, prof_count, prof_response >>

vars == << mvars, fvars, rvars, uvars, lvars, avars, svars, gvars, cvars, pvars >>

\* What the handlers of one component leave alone: the other components.
not_mvars == << fvars, rvars, uvars, lvars, avars, svars, gvars, cvars, pvars >>
not_fvars == << mvars, rvars, uvars, lvars, avars, svars, gvars, cvars, pvars >>
not_rvars == << mvars, fvars, uvars, lvars, avars, svars, gvars, cvars, pvars >>
not_uvars == << mvars, fvars, rvars, lvars, avars, svars, gvars, cvars, pvars >>
not_lvars == << mvars, fvars, rvars, uvars, avars, svars, gvars, cvars, pvars >>
not_avars == << mvars, fvars, rvars, uvars, lvars, svars, gvars, cvars, pvars >>
not_svars == << mvars, fvars, rvars, uvars, lvars, avars, gvars, cvars, pvars >>
not_gvars == << mvars, fvars, rvars, uvars, lvars, avars, svars, cvars, pvars >>
not_cvars == << mvars, fvars, rvars, uvars, lvars, avars, svars, gvars, pvars >>
not_pvars == << mvars, fvars, rvars, uvars, lvars, avars, svars, gvars, cvars >>

-----------------------------------------------------------------------------
(* Exact arithmetic standing for Python's float arithmetic.                *)

Abs(n) == IF n < 0 THEN -n ELSE n

RECURSIVE GCD(_, _)
GCD(a, b) == IF b = 0 THEN a ELSE GCD(b, a % b)

ZeroDiv == << 0, 0 >>

IsFault(x) == x[2] = 0

Rat(n, d) ==
    IF d = 0 THEN ZeroDiv
    ELSE LET g == GCD(Abs(n), Abs(d))
             s == IF d < 0 THEN -1 ELSE 1
         IN  << (s * n) \div g, (s * d) \div g >>

Num(n) == << n, 1 >>

RAdd(a, b) == IF IsFault(a) \/ IsFault(b) THEN ZeroDiv
              ELSE Rat(a[1] * b[2] + b[1] * a[2], a[2] * b[2])

RSub(a, b) == IF IsFault(a) \/ IsFault(b) THEN ZeroDiv
              ELSE Rat(a[1] * b[2] - b[1] * a[2], a[2] * b[2])

RMul(a, b) == IF IsFault(a) \/ IsFault(b) THEN ZeroDiv
              ELSE Rat(a[1] * b[1], a[2] * b[2])

\* Python's true division a / b: ZeroDivisionError when b is 0.
RDiv(a, b) == IF IsFault(a) \/ IsFault(b) \/ b[1] = 0 THEN ZeroDiv
              ELSE Rat(a[1] * b[2], a[2] * b[1])

RLe(a, b) == a[1] * b[2] <= b[1] * a[2]
RLt(a, b) == a[1] * b[2] < b[1] * a[2]

RMin(a, b) == IF IsFault(a) \/ IsFault(b) THEN ZeroDiv
              ELSE IF RLe(a, b) THEN a ELSE b

RMax(a, b) == IF IsFault(a) \/ IsFault(b) THEN ZeroDiv
              ELSE IF RLe(b, a) THEN a ELSE b

InRange(x, lo, hi) == ~IsFault(x) /\ RLe(Num(lo), x) /\ RLe(x, Num(hi))

\* The integer nearest to n/d (d > 0), ties to the even one.
RoundHalfEven(n, d) ==
    LET q == n \div d
        r == n - q * d
    IN  IF 2 * r < d THEN q
        ELSE IF 2 * r > d THEN q + 1
        ELSE IF q % 2 = 0 THEN q ELSE q + 1

RECURSIVE Pow10(_)
Pow10(k) == IF k = 0 THEN 1 ELSE 10 * Pow10(k - 1)

\* Python's round(x, ndigits) on a float.
Round(x, ndigits) ==
    IF IsFault(x) THEN ZeroDiv
    ELSE Rat(RoundHalfEven(x[1] * Pow10(ndigits), x[2]), Pow10(ndigits))

RECURSIVE RSum(_)
RSum(s) == IF s = << >> THEN Num(0) ELSE RAdd(Head(s), RSum(Tail(s)))

MaxInt(a, b) == IF a >= b THEN a ELSE b
MinInt(a, b) == IF a <= b THEN a ELSE b

Range(s) == { s[i] : i \in DOMAIN s }

-----------------------------------------------------------------------------
(* Text.                                                                   *)

UpperChars == << "A", "B", "C", "D", "E", "F", "G", "H", "I", "J", "K", "L", "M",
                 "N", "O", "P", "Q", "R", "S", "T", "U", "V", "W", "X", "Y", "Z" >>
LowerChars == << "a", "b", "c", "d", "e", "f", "g", "h", "i", "j", "k", "l", "m",
                 "n", "o", "p", "q", "r", "s", "t", "u", "v", "w", "x", "y", "z" >>

LowerTable ==
    [ c \in Range(UpperChars) |->
        LowerChars[CHOOSE i \in DOMAIN UpperChars : UpperChars[i] = c] ]

LowerChar(c) == IF c \in DOMAIN LowerTable THEN LowerTable[c] ELSE c

\* str.lower()
Lower(s) == [ i \in DOMAIN s |-> LowerChar(s[i]) ]

\* needle in hay
Contains(needle, hay) ==
    \E i \in 0 .. (Len(hay) - Len(needle)) :
        SubSeq(hay, i + 1, i + Len(needle)) = needle

\* [skill.lower() for skill in skills]
LowerAll(skills) == [ i \in DOMAIN skills |-> Lower(skills[i]) ]


\* Two letters outside ASCII, each written as the name of its code point:
\* the long s and the dotless i. str.lower() leaves both as they are.
LongS == "U+017F"
DotlessI == "U+0131"

WordChars ==
    Range(UpperChars) \cup Range(LowerChars)
        \cup { "0", "1", "2", "3", "4", "5", "6", "7", "8", "9", "_" }
        \cup { LongS, DotlessI }

\* The letter a character counts as under re.IGNORECASE: a str pattern also
\* matches the long s for "s" and the dotless i for "i".
CaseFold(c) ==
    IF c = LongS THEN "s" ELSE IF c = DotlessI THEN "i" ELSE LowerChar(c)

IsWordChar(c) == c \in WordChars

\* s.startswith(prefix), s.endswith(suffix)
StartsWith(s, prefix) ==
    Len(prefix) <= Len(s) /\ SubSeq(s, 1, Len(prefix)) = prefix

EndsWith(s, suffix) ==
    Len(suffix) <= Len(s) /\ SubSeq(s, Len(s) - Len(suffix) + 1, Len(s)) = suffix

Whitespace == { " ", "\t", "\n", "\r" }

\* s.strip()
Strip(s) ==
    LET keep == { i \in DOMAIN s : s[i] \notin Whitespace }
    IN  IF keep = { } THEN << >>
        ELSE SubSeq(s, CHOOSE i \in keep : \A j \in keep : i <= j,
                       CHOOSE i \in keep : \A j \in keep : j <= i)

\* c * n
Rep(c, n) == [ i \in 1 .. n |-> c ]

\* f.readlines(): the lines of content, each with its "\n" when it has one
RECURSIVE ReadLines(_)
ReadLines(content) ==
    IF content = << >> THEN << >>
    ELSE IF \E i \in DOMAIN content : content[i] = "\n"
    THEN LET k == CHOOSE i \in DOMAIN content :
                      content[i] = "\n" /\ \A j \in 1 .. (i - 1) : content[j] # "\n"
         IN  << SubSeq(content, 1, k) >> \o ReadLines(SubSeq(content, k + 1, Len(content)))
    ELSE << content >>

\* content.splitlines(): the lines without their "\n"
SplitLines(content) ==
    LET lines == ReadLines(content)
    IN  [ i \in DOMAIN lines |->
            IF EndsWith(lines[i], << "\n" >>)
            THEN SubSeq(lines[i], 1, Len(lines[i]) - 1) ELSE lines[i] ]


\* re.findall(r'\b(word)\b', text, re.IGNORECASE): the pieces of text it
\* returns, each a maximal run of word characters of text that equals word when
\* case is ignored (word holds word characters only).
FindAllWord(word, text) ==
    { SubSeq(text, i + 1, i + Len(word)) :
        i \in { j \in 0 .. (Len(text) - Len(word)) :
                  /\ \A k \in DOMAIN word : CaseFold(text[j + k]) = CaseFold(word[k])
                  /\ (j = 0 \/ ~IsWordChar(text[j]))
                  /\ (j + Len(word) = Len(text) \/ ~IsWordChar(text[j + Len(word) + 1])) } }

-----------------------------------------------------------------------------
(* extract_skills_from_text (app.py 212-241).                              *)

K_react == << "r", "e", "a", "c", "t" >>
K_go    == << "g", "o" >>
K_k8s   == << "k", "8", "s" >>
K_mysql == << "m", "y", "s", "q", "l" >>
K_sql   == << "s", "q", "l" >>

\* The keyword table, cut down to one or two keywords per category kept.
SKILL_PATTERNS ==
    [ frontend |-> << K_react >>,
      backend  |-> << K_go >>,
      devops   |-> << K_k8s >>,
      database |-> << K_mysql, K_sql >> ]

\* The alternatives of framework_patterns that are keywords of the table above.
framework_patterns == << << K_react >>, << K_k8s >>, << K_mysql >> >>

extract_skills_from_text(text) ==
    IF text = << >> THEN { }
    ELSE LET text_lower == Lower(text)
             direct == { k \in UNION { Range(SKILL_PATTERNS[c]) : c \in DOMAIN SKILL_PATTERNS } :
                           Contains(k, text_lower) }
             framework == UNION { FindAllWord(w, text_lower) :
                                    w \in UNION { Range(framework_patterns[i]) :
                                                     i \in DOMAIN framework_patterns } }
         IN  direct \cup framework

-----------------------------------------------------------------------------
(* Inputs of match_single_candidate.                                       *)

S_Go    == << "G", "o" >>
S_SQL   == << "S", "Q", "L" >>
S_React == << "R", "e", "a", "c", "t" >>

T_none  == << >>
T_jd    == << "W", "e", " ", "u", "s", "e", " ", "G", "o", ",", " ", "M", "y", "S", "Q", "L" >>
T_api   == << "G", "o", " ", "a", "p", "i" >>
T_full  == << "g", "o", "o", "d", " ", "s", "q", "l" >>
T_long  == << "R", "e", "a", "c", "t", " ", "o", "n", " ", "k", "8", "s" >>

\* Bound: the longest repository list of a request.
MaxRepos == 2

RequiredLists == { << >>, << S_Go, K_sql >>, << S_Go, S_Go >>, << K_sql, K_react >> }
NiceLists     == { << >>, << K_react >>, << K_sql, K_sql >> }
JobDescriptions == { T_none, T_jd }

RepoSkillLists == { << >>, << S_Go >>, << S_Go, S_SQL, S_React >> }

\* description, readme_content, stars, readme_length of a repository
RepoDocs ==
    { [ description |-> T_none, readme_content |-> T_none, stars |-> 0, readme_length |-> 0 ],
      [ description |-> T_api,  readme_content |-> T_none, stars |-> 3, readme_length |-> 250 ],
      [ description |-> T_full, readme_content |-> T_long, stars |-> 12, readme_length |-> 1500 ] }

RepoNames == << "r1", "r2", "r3", "r4" >>

Repos(i) ==
    { [ name |-> RepoNames[i], detected_skills |-> sk, description |-> d.description,
        readme_content |-> d.readme_content, stars |-> d.stars,
        readme_length |-> d.readme_length ] : sk \in RepoSkillLists, d \in RepoDocs }

RECURSIVE RepoListsOfLen(_)
RepoListsOfLen(n) ==
    IF n = 0 THEN { << >> }
    ELSE { Append(l, r) : l \in RepoListsOfLen(n - 1), r \in Repos(n) }

RepoLists == UNION { RepoListsOfLen(n) : n \in 0 .. MaxRepos }

\* candidate_data: a dict, given by its keys and the value under "top_repos"
CandidateData ==
    { [ keys |-> { }, top_repos |-> << >> ],
      [ keys |-> { "username" }, top_repos |-> << >> ] }
    \cup { [ keys |-> { "username", "top_repos" }, top_repos |-> l ] : l \in RepoLists }

Requests ==
    [ job_description : JobDescriptions, required_skills : RequiredLists,
      nice_to_have : NiceLists, candidate_data : CandidateData ]

-----------------------------------------------------------------------------
(* match_single_candidate (app.py 794-874).                                *)

\* len(set(skills) & set(repo_skills_lower))
SkillMatches(skills, repo_skills_lower) ==
    Cardinality(Range(skills) \cap Range(repo_skills_lower))

\* Mutant: the denominator without its floor of 1.
SkillDenominator_NoFloor(skills) == Len(skills)

\* max(len(required_skills), 1) and max(len(nice_to_have), 1)
SkillDenominator(skills) == MaxInt(Len(skills), 1)

OverlapRatio(skills, repo_skills_lower) ==
    RDiv(Num(SkillMatches(skills, repo_skills_lower)), Num(SkillDenominator(skills)))

\* Mutant: the required component weighted 60 instead of 70.
RequiredScore_Weight60(required, repo_skills_lower) ==
    RMul(OverlapRatio(required, repo_skills_lower), Num(60))

RequiredScore(required, repo_skills_lower) ==
    RMul(OverlapRatio(required, repo_skills_lower), Num(70))

NiceToHaveScore(nice, repo_skills_lower) ==
    RMul(OverlapRatio(nice, repo_skills_lower), Num(15))

AllText(repo) == Lower(repo.description \o << " " >> \o repo.readme_content)

ContextMatches(job_skills, all_text) ==
    Cardinality({ skill \in job_skills : Contains(skill, all_text) })

ContextScore(job_skills, all_text) ==
    RMin(RMul(RDiv(Num(ContextMatches(job_skills, all_text)),
                   Num(MaxInt(Cardinality(job_skills), 1))), Num(10)), Num(10))

ReadmeBonus(readme_length) ==
    RMul(RMin(RDiv(Num(readme_length), Num(1000)), Num(1)), Num(3))

PopularityBonus(stars) ==
    RMul(RMin(RDiv(Num(stars), Num(10)), Num(1)), Num(2))

\* repo_match_percentage of one repository (before rounding)
RepoMatchPercentage(repo, required, nice, job_skills) ==
    LET repo_skills_lower == LowerAll(repo.detected_skills)
    IN  RMin(RAdd(RAdd(RAdd(RAdd(RequiredScore(required, repo_skills_lower),
                                 NiceToHaveScore(nice, repo_skills_lower)),
                            ContextScore(job_skills, AllText(repo))),
                       ReadmeBonus(repo.readme_length)),
                  PopularityBonus(repo.stars)),
             Num(100))

\* Mutant: the two factors of the weight added instead of multiplied.
RepoWeight_Sum(repo) ==
    RAdd(RMax(Num(repo.stars), Num(1)),
         RMax(RDiv(Num(repo.readme_length), Num(100)), Num(1)))

\* Mutant: the weight without its floors of 1.
RepoWeight_NoFloor(repo) ==
    RMul(Num(repo.stars), RDiv(Num(repo.readme_length), Num(100)))

\* repo_weight = max(stars, 1) * max(readme_length / 100, 1)
RepoWeight(repo) ==
    RMul(RMax(Num(repo.stars), Num(1)),
         RMax(RDiv(Num(repo.readme_length), Num(100)), Num(1)))

\* sum(weighted_scores) / total_weight if total_weight > 0 else 0
TotalMatchPercentage(scores, weight) ==
    IF RLt(Num(0), weight) THEN RDiv(RSum(scores), weight) ELSE Num(0)

\* Mutant: the sort without reverse=True.
InsertDesc_Ascending(sorted, x) ==
    LET k == Cardinality({ j \in DOMAIN sorted :
                             RLe(sorted[j].match_percentage, x.match_percentage) })
    IN  SubSeq(sorted, 1, k) \o << x >> \o SubSeq(sorted, k + 1, Len(sorted))

\* One insertion of list.sort(key=match_percentage, reverse=True): x goes after
\* every entry whose key is not smaller (the sort is stable).
InsertDesc(sorted, x) ==
    LET k == Cardinality({ j \in DOMAIN sorted :
                             RLe(x.match_percentage, sorted[j].match_percentage) })
    IN  SubSeq(sorted, 1, k) \o << x >> \o SubSeq(sorted, k + 1, Len(sorted))

RECURSIVE SortDesc(_)
SortDesc(l) ==
    IF l = << >> THEN << >>
    ELSE InsertDesc(SortDesc(SubSeq(l, 1, Len(l) - 1)), l[Len(l)])

NoResponse == [ status |-> 0 ]

MatchInit ==
    /\ request \in Requests
    /\ mpc = "start"
    /\ required_skills = << >>
    /\ nice_to_have = << >>
    /\ all_job_skills = { }
    /\ top_repos = << >>
    /\ repo_matches = << >>
    /\ weighted_scores = << >>
    /\ total_weight = Num(0)
    /\ total_match_percentage = Num(0)
    /\ response = NoResponse

MatchIdle ==
    /\ request = [ job_description |-> T_none, required_skills |-> << >>,
                   nice_to_have |-> << >>,
                   candidate_data |-> [ keys |-> { }, top_repos |-> << >> ] ]
    /\ mpc = "idle"
    /\ required_skills = << >>
    /\ nice_to_have = << >>
    /\ all_job_skills = { }
    /\ top_repos = << >>
    /\ repo_matches = << >>
    /\ weighted_scores = << >>
    /\ total_weight = Num(0)
    /\ total_match_percentage = Num(0)
    /\ response = NoResponse

\* Lines 799-804 and the check of candidate_data, lines 806-807.
MatchParse ==
    /\ mpc = "start"
    /\ required_skills' = LowerAll(request.required_skills)
    /\ nice_to_have' = LowerAll(request.nice_to_have)
    /\ IF request.candidate_data.keys = { }
       THEN /\ mpc' = "done"
            /\ response' = [ status |-> 400, error |-> "No candidate data provided" ]
       ELSE /\ mpc' = "skills"
            /\ UNCHANGED response
    /\ UNCHANGED << request, all_job_skills, top_repos, repo_matches, weighted_scores,
                    total_weight, total_match_percentage >>
    /\ UNCHANGED not_mvars

\* Mutant: an empty repository list answered like missing candidate data.
MatchSkills_EmptyIsError ==
    /\ mpc = "skills"
    /\ all_job_skills' = Range(required_skills) \cup Range(nice_to_have)
                            \cup extract_skills_from_text(request.job_description)
    /\ top_repos' = IF "top_repos" \in request.candidate_data.keys
                    THEN request.candidate_data.top_repos ELSE << >>
    /\ IF top_repos' = << >>
       THEN /\ mpc' = "done"
            /\ response' = [ status |-> 400, error |-> "No candidate data provided" ]
       ELSE /\ mpc' = "loop"
            /\ UNCHANGED response
    /\ UNCHANGED << request, required_skills, nice_to_have, repo_matches, weighted_scores,
                    total_weight, total_match_percentage >>
    /\ UNCHANGED not_mvars

\* Lines 809-823: the job's skills, the repository list and its empty case.
MatchSkills ==
    /\ mpc = "skills"
    /\ all_job_skills' = Range(required_skills) \cup Range(nice_to_have)
                            \cup extract_skills_from_text(request.job_description)
    /\ top_repos' = IF "top_repos" \in request.candidate_data.keys
                    THEN request.candidate_data.top_repos ELSE << >>
    /\ IF top_repos' = << >>
       THEN /\ mpc' = "done"
            /\ response' = [ status |-> 200, total_match_percentage |-> Num(0),
                             repo_matches |-> << >> ]
       ELSE /\ mpc' = "loop"
            /\ UNCHANGED response
    /\ UNCHANGED << request, required_skills, nice_to_have, repo_matches, weighted_scores,
                    total_weight, total_match_percentage >>
    /\ UNCHANGED not_mvars

\* Lines 825-860: one turn of the loop over top_repos; lines 872-874 when a
\* division raises.
MatchRepo ==
    /\ mpc = "loop"
    /\ Len(repo_matches) < Len(top_repos)
    /\ LET repo == top_repos[Len(repo_matches) + 1]
           repo_match_percentage ==
               RepoMatchPercentage(repo, required_skills, nice_to_have, all_job_skills)
           repo_weight == RepoWeight(repo)
       IN  IF IsFault(repo_match_percentage) \/ IsFault(repo_weight)
           THEN /\ mpc' = "done"
                /\ response' = [ status |-> 500, error |-> "Matching failed" ]
                /\ UNCHANGED << repo_matches, weighted_scores, total_weight >>
           ELSE /\ repo_matches' = Append(repo_matches,
                       [ repo_name |-> repo.name,
                         match_percentage |-> Round(repo_match_percentage, 0) ])
                /\ weighted_scores' = Append(weighted_scores,
                       RMul(repo_match_percentage, repo_weight))
                /\ total_weight' = RAdd(total_weight, repo_weight)
                /\ UNCHANGED << mpc, response >>
    /\ UNCHANGED << request, required_skills, nice_to_have, all_job_skills, top_repos,
                    total_match_percentage >>
    /\ UNCHANGED not_mvars

\* Lines 862-870: the weighted average, the sort and the response.
MatchRespond ==
    /\ mpc = "loop"
    /\ Len(repo_matches) = Len(top_repos)
    /\ total_match_percentage' = TotalMatchPercentage(weighted_scores, total_weight)
    /\ repo_matches' = SortDesc(repo_matches)
    /\ mpc' = "done"
    /\ response' = IF IsFault(total_match_percentage')
                   THEN [ status |-> 500, error |-> "Matching failed" ]
                   ELSE [ status |-> 200,
                          total_match_percentage |-> Round(total_match_percentage', 0),
                          repo_matches |-> repo_matches' ]
    /\ UNCHANGED << request, required_skills, nice_to_have, all_job_skills, top_repos,
                    weighted_scores, total_weight >>
    /\ UNCHANGED not_mvars

MatchNext == MatchParse \/ MatchSkills \/ MatchRepo \/ MatchRespond

-----------------------------------------------------------------------------
(* The file scorers: score_code_readability, detect_comment_lines          *)
(* (analyzer.py 315-395), score_html_quality (110-148) and                 *)
(* score_css_quality (150-181).                                            *)
(*                                                                         *)
(* A file is its extension, whether it decodes as UTF-8, its content, and  *)
(* what BeautifulSoup and the regular expressions of the HTML and CSS      *)
(* scorers count in it (counts).                                           *)

COMMENT_SYNTAX ==
    [ py   |-> [ line |-> << "#" >>,      block_start |-> << >>, block_end |-> << >> ],
      js   |-> [ line |-> << "/", "/" >>, block_start |-> << "/", "*" >>,
                 block_end |-> << "*", "/" >> ],
      ts   |-> [ line |-> << "/", "/" >>, block_start |-> << "/", "*" >>,
                 block_end |-> << "*", "/" >> ],
      cpp  |-> [ line |-> << "/", "/" >>, block_start |-> << "/", "*" >>,
                 block_end |-> << "*", "/" >> ],
      c    |-> [ line |-> << "/", "/" >>, block_start |-> << "/", "*" >>,
                 block_end |-> << "*", "/" >> ],
      java |-> [ line |-> << "/", "/" >>, block_start |-> << "/", "*" >>,
                 block_end |-> << "*", "/" >> ],
      cs   |-> [ line |-> << "/", "/" >>, block_start |-> << "/", "*" >>,
                 block_end |-> << "*", "/" >> ],
      rb   |-> [ line |-> << "#" >>,      block_start |-> << >>, block_end |-> << >> ],
      go   |-> [ line |-> << "/", "/" >>, block_start |-> << "/", "*" >>,
                 block_end |-> << "*", "/" >> ],
      html |-> [ line |-> << >>, block_start |-> << "<", "!", "-", "-" >>,
                 block_end |-> << "-", "-", ">" >> ],
      xml  |-> [ line |-> << >>, block_start |-> << "<", "!", "-", "-" >>,
                 block_end |-> << "-", "-", ">" >> ] ]

\* The value of SUPPORTED_CODE_EXTS when the functions run: its second
\* assignment (analyzer.py 329-331) replaces the first (line 13).
SUPPORTED_CODE_EXTS ==
    { "py", "js", "ts", "cpp", "c", "java", "cs", "rb", "go", "html", "xml" }

\* COMMENT_SYNTAX.get(ext, {}): an absent key is an empty marker here.
SyntaxOf(ext) ==
    IF ext \in DOMAIN COMMENT_SYNTAX THEN COMMENT_SYNTAX[ext]
    ELSE [ line |-> << >>, block_start |-> << >>, block_end |-> << >> ]

\* The loop of detect_comment_lines over lines[1..n]: << comment_lines, in_block >>
RECURSIVE CommentScan(_, _, _)
CommentScan(lines, syntax, n) ==
    IF n = 0 THEN << 0, FALSE >>
    ELSE LET before == CommentScan(lines, syntax, n - 1)
             comment_lines == before[1]
             in_block == before[2]
             stripped == Strip(lines[n])
         IN  IF syntax.line # << >> /\ StartsWith(stripped, syntax.line)
             THEN << comment_lines + 1, in_block >>
             ELSE IF syntax.block_start # << >> /\ syntax.block_end # << >>
             THEN IF in_block \/ StartsWith(stripped, syntax.block_start)
                  THEN << comment_lines + 1,
                          ~( EndsWith(stripped, syntax.block_end)
                             \/ Contains(syntax.block_end, stripped) ) >>
                  ELSE before
             ELSE before

detect_comment_lines(lines, ext) == CommentScan(lines, SyntaxOf(ext), Len(lines))[1]

DecodeError == [ error |-> "decode" ]

\* score_code_readability on a file with lines: lines 363-395
ReadabilityOfLines(lines, ext) ==
    LET total_lines == Len(lines)
        comment_lines == detect_comment_lines(lines, ext)
        blank_lines == Cardinality({ i \in DOMAIN lines : Strip(lines[i]) = << >> })
        long_lines == Cardinality({ i \in DOMAIN lines : Len(lines[i]) > 100 })
        space_indent == Cardinality({ i \in DOMAIN lines :
                                        StartsWith(lines[i], << " ", " ", " ", " " >>) })
        tab_indent == Cardinality({ i \in DOMAIN lines : StartsWith(lines[i], << "\t" >>) })
        mixed_indent == Cardinality({ i \in DOMAIN lines :
                            LET first8 == SubSeq(lines[i], 1, MinInt(8, Len(lines[i])))
                            IN  "\t" \in Range(first8) /\ " " \in Range(first8) })
        indent_base == IF space_indent = 0 \/ tab_indent = 0 THEN Num(15) ELSE Num(5)
        indent_score == RMax(Num(0), RMin(Num(15),
                             RSub(indent_base, RMul(Num(mixed_indent), Rat(1, 2)))))
        comment_ratio == RDiv(Num(comment_lines), Num(total_lines))
        comment_score == IF RLt(Rat(2, 10), comment_ratio) THEN Num(25)
                         ELSE IF RLt(Rat(1, 10), comment_ratio) THEN Num(15) ELSE Num(5)
        structure_score == Num(MaxInt(0, 10 - long_lines))
        blank_line_score == RMin(RMul(RDiv(Num(blank_lines), Num(total_lines)), Num(10)),
                                 Num(10))
        total_score == Round(RAdd(RAdd(RAdd(indent_score, comment_score), structure_score),
                                  blank_line_score), 2)
    IN  [ score |-> total_score,
          comment_score |-> Round(comment_score, 2),
          indent_score |-> Round(indent_score, 2),
          structure_score |-> Round(structure_score, 2),
          blank_line_score |-> Round(blank_line_score, 2),
          comment_ratio |-> Round(comment_ratio, 2) ]

\* Mutant: the scorer without its test for a file with no lines.
CodeReadability_NoEmptyTest(lines, ext) == ReadabilityOfLines(lines, ext)

\* score_code_readability once the file is read: lines 360-395
CodeReadability(lines, ext) ==
    IF lines = << >> THEN [ score |-> Num(0) ]
    ELSE ReadabilityOfLines(lines, ext)

score_code_readability(f) ==
    IF ~f.decodable THEN DecodeError
    ELSE CodeReadability(ReadLines(f.content), f.ext)

\* len(indent_types): lines 124-128 of score_html_quality
IndentTypes(lines) ==
    { t \in { "space", "tab" } :
        \E i \in DOMAIN lines :
            \/ t = "space" /\ StartsWith(lines[i], << " " >>)
            \/ t = "tab" /\ ~StartsWith(lines[i], << " " >>)
                         /\ StartsWith(lines[i], << "\t" >>) }

\* sum(1 for line in lines if len(line) > 120)
LongLines120(lines) == Cardinality({ i \in DOMAIN lines : Len(lines[i]) > 120 })

\* Mutant: the semantic component without its cap of 5 elements.
score_html_quality_NoSemanticCap(f) ==
    IF ~f.decodable THEN DecodeError
    ELSE
    LET lines == SplitLines(f.content)
        n == f.counts
        semantic_score == RMul(RDiv(Num(n.semantic_count), Num(5)), Num(25))
        indent_score == IF Cardinality(IndentTypes(lines)) <= 1 THEN Num(20) ELSE Num(10)
        long_lines == LongLines120(lines)
        line_length_score == IF long_lines = 0 THEN Num(15)
                             ELSE Num(MaxInt(0, 15 - long_lines))
        alt_score == IF n.img_tags # 0
                     THEN RMul(RDiv(Num(n.img_with_alt), Num(MaxInt(n.img_tags, 1))), Num(10))
                     ELSE Num(10)
        inline_penalty == RMul(RDiv(Num(MinInt(n.inline_styles + n.style_tags, 5)), Num(5)),
                               Num(10))
        inline_score == RMax(Num(0), RSub(Num(10), inline_penalty))
        balance_score == IF Abs(n.open_tags - n.close_tags) <= 3 THEN Num(20) ELSE Num(10)
    IN  [ score |-> Round(RAdd(RAdd(RAdd(RAdd(RAdd(semantic_score, indent_score),
                                                 line_length_score), alt_score),
                                       inline_score), balance_score), 2) ]

\* Mutant: the semantic component capped at 6 elements instead of 5.
score_html_quality_SemanticCap6(f) ==
    IF ~f.decodable THEN DecodeError
    ELSE
    LET lines == SplitLines(f.content)
        n == f.counts
        semantic_score == RMul(RDiv(Num(MinInt(n.semantic_count, 6)), Num(5)), Num(25))
        indent_score == IF Cardinality(IndentTypes(lines)) <= 1 THEN Num(20) ELSE Num(10)
        long_lines == LongLines120(lines)
        line_length_score == IF long_lines = 0 THEN Num(15)
                             ELSE Num(MaxInt(0, 15 - long_lines))
        alt_score == IF n.img_tags # 0
                     THEN RMul(RDiv(Num(n.img_with_alt), Num(MaxInt(n.img_tags, 1))), Num(10))
                     ELSE Num(10)
        inline_penalty == RMul(RDiv(Num(MinInt(n.inline_styles + n.style_tags, 5)), Num(5)),
                               Num(10))
        inline_score == RMax(Num(0), RSub(Num(10), inline_penalty))
        balance_score == IF Abs(n.open_tags - n.close_tags) <= 3 THEN Num(20) ELSE Num(10)
    IN  [ score |-> Round(RAdd(RAdd(RAdd(RAdd(RAdd(semantic_score, indent_score),
                                                 line_length_score), alt_score),
                                       inline_score), balance_score), 2) ]

score_html_quality(f) ==
    IF ~f.decodable THEN DecodeError
    ELSE
    LET lines == SplitLines(f.content)
        n == f.counts
        semantic_score == RMul(RDiv(Num(MinInt(n.semantic_count, 5)), Num(5)), Num(25))
        indent_score == IF Cardinality(IndentTypes(lines)) <= 1 THEN Num(20) ELSE Num(10)
        long_lines == LongLines120(lines)
        line_length_score == IF long_lines = 0 THEN Num(15)
                             ELSE Num(MaxInt(0, 15 - long_lines))
        alt_score == IF n.img_tags # 0
                     THEN RMul(RDiv(Num(n.img_with_alt), Num(MaxInt(n.img_tags, 1))), Num(10))
                     ELSE Num(10)
        inline_penalty == RMul(RDiv(Num(MinInt(n.inline_styles + n.style_tags, 5)), Num(5)),
                               Num(10))
        inline_score == RMax(Num(0), RSub(Num(10), inline_penalty))
        balance_score == IF Abs(n.open_tags - n.close_tags) <= 3 THEN Num(20) ELSE Num(10)
    IN  [ score |-> Round(RAdd(RAdd(RAdd(RAdd(RAdd(semantic_score, indent_score),
                                                 line_length_score), alt_score),
                                       inline_score), balance_score), 2) ]

score_css_quality(f) ==
    IF ~f.decodable THEN DecodeError
    ELSE
    LET lines == SplitLines(f.content)
        n == f.counts
        modularity_score == Num(MinInt(25, 25 - MinInt(n.id_selectors, 10)))
        duplicate_props == n.properties - n.distinct_properties
        duplication_penalty == MinInt(duplicate_props, 5) * 2
        reuse_score == Num(MaxInt(0, 20 - duplication_penalty))
        rule_score == IF 3 <= n.rule_count /\ n.rule_count <= 200 THEN Num(15) ELSE Num(5)
        long_lines == LongLines120(lines)
        format_score == Num(MaxInt(0, 20 - long_lines))
        comment_score == RMul(RDiv(Num(MinInt(n.comment_blocks, 5)), Num(5)), Num(10))
        important_score == Num(MaxInt(0, 10 - MinInt(n.important_usage, 5) * 2))
    IN  [ score |-> Round(RAdd(RAdd(RAdd(RAdd(RAdd(modularity_score, reuse_score),
                                                 rule_score), format_score),
                                       comment_score), important_score), 2) ]

-----------------------------------------------------------------------------
(* Files given to the scorers.                                             *)

\* Bound: the largest number of lines of a source file.
MaxLines == 3

\* lines joined by "\n", with one more "\n" at the end when final_newline
RECURSIVE JoinLines(_, _)
JoinLines(bodies, final_newline) ==
    IF bodies = << >> THEN << >>
    ELSE IF Len(bodies) = 1
    THEN Head(bodies) \o (IF final_newline THEN << "\n" >> ELSE << >>)
    ELSE Head(bodies) \o << "\n" >> \o JoinLines(Tail(bodies), final_newline)

CodeLineBodies ==
    { << >>, << "x", " ", "=", " ", "1" >>, << " ", " ", " ", " ", "x" >>, << "\t", "x" >>, << " ", "\t", "x" >>, << "#", " ", "c" >>, << "/", "*", " ", "c" >>, Rep("x", 100) }

RECURSIVE LineSeqs(_)
LineSeqs(n) ==
    IF n = 0 THEN { << >> }
    ELSE LET shorter == LineSeqs(n - 1)
         IN  shorter \cup { Append(l, b) : l \in { x \in shorter : Len(x) = n - 1 },
                                            b \in CodeLineBodies }

NoCounts ==
    [ semantic_count |-> 0, img_tags |-> 0, img_with_alt |-> 0, inline_styles |-> 0,
      style_tags |-> 0, open_tags |-> 0, close_tags |-> 0,
      id_selectors |-> 0, properties |-> 0, distinct_properties |-> 0,
      rule_count |-> 0, comment_blocks |-> 0, important_usage |-> 0 ]

CodeFiles ==
    { [ ext |-> e, decodable |-> TRUE, content |-> JoinLines(l, nl), counts |-> NoCounts ] :
        e \in { "py", "js" }, l \in LineSeqs(MaxLines), nl \in BOOLEAN }

UndecodableFiles ==
    { [ ext |-> e, decodable |-> FALSE, content |-> << >>, counts |-> NoCounts ] :
        e \in { "py", "html", "css" } }

HtmlContents ==
    { << >>,
      JoinLines(<< << " ", "<", "p", ">" >>, << " ", "<", "p", ">" >> >>, FALSE),
      JoinLines(<< << " ", "<", "p", ">" >>, << "\t", "<", "p", ">" >>, Rep("x", 121) >>, TRUE),
      JoinLines([ i \in 1 .. 16 |-> Rep("x", 121) ], TRUE) }

\* What BeautifulSoup and the two tag patterns count in an HTML file.
HtmlCounts ==
    { [ NoCounts EXCEPT !.semantic_count = sem, !.img_tags = img[1], !.img_with_alt = img[2],
                        !.inline_styles = sty[1], !.style_tags = sty[2],
                        !.open_tags = tag[1], !.close_tags = tag[2] ] :
        sem \in { 0, 3, 5, 6 },
        img \in { << 0, 0 >>, << 2, 0 >>, << 3, 2 >>, << 2, 2 >> },
        sty \in { << 0, 0 >>, << 1, 1 >>, << 4, 2 >> },
        tag \in { << 0, 0 >>, << 6, 3 >>, << 7, 3 >>, << 2, 9 >> } }

HtmlFiles ==
    { [ ext |-> "html", decodable |-> TRUE, content |-> c, counts |-> n ] :
        c \in HtmlContents, n \in HtmlCounts }

CssContents ==
    { << >>,
      JoinLines(<< << "a", "{", "}" >>, Rep("x", 121), Rep("x", 120) >>, TRUE),
      JoinLines([ i \in 1 .. 21 |-> Rep("x", 121) ], FALSE) }

\* What the patterns of score_css_quality count in a stylesheet.
CssCounts ==
    { [ NoCounts EXCEPT !.id_selectors = ids, !.properties = prop[1],
                        !.distinct_properties = prop[2], !.rule_count = rules,
                        !.comment_blocks = com, !.important_usage = imp ] :
        ids \in { 0, 4, 12 },
        prop \in { << 0, 0 >>, << 5, 3 >>, << 9, 2 >> },
        rules \in { 0, 3, 200, 201 },
        com \in { 0, 2, 7 },
        imp \in { 0, 2, 6 } }

CssFiles ==
    { [ ext |-> "css", decodable |-> TRUE, content |-> c, counts |-> n ] :
        c \in CssContents, n \in CssCounts }

NoFile == [ ext |-> "", decodable |-> FALSE, content |-> << >>, counts |-> NoCounts ]
NoResult == [ none |-> TRUE ]

FileInit ==
    /\ file \in CodeFiles \cup HtmlFiles \cup CssFiles \cup UndecodableFiles
    /\ fpc = "start"
    /\ file_result = NoResult

FileIdle ==
    /\ file = NoFile
    /\ fpc = "idle"
    /\ file_result = NoResult

\* analyze_user_code_quality gives score_code_readability the files whose name
\* ends with one of SUPPORTED_CODE_EXTS (analyzer.py 33, 63).
ScoreCodeReadability ==
    /\ fpc = "start"
    /\ file.ext \in SUPPORTED_CODE_EXTS
    /\ file_result' = score_code_readability(file)
    /\ fpc' = "code"
    /\ UNCHANGED file
    /\ UNCHANGED not_fvars

\* analyze_repo_githired gives score_html_quality the .html files (210-211).
ScoreHtmlQuality ==
    /\ fpc = "start"
    /\ file.ext = "html"
    /\ file_result' = score_html_quality(file)
    /\ fpc' = "html"
    /\ UNCHANGED file
    /\ UNCHANGED not_fvars

\* analyze_repo_githired gives score_css_quality the .css files (214-215).
ScoreCssQuality ==
    /\ fpc = "start"
    /\ file.ext = "css"
    /\ file_result' = score_css_quality(file)
    /\ fpc' = "css"
    /\ UNCHANGED file
    /\ UNCHANGED not_fvars

FileNext == ScoreCodeReadability \/ ScoreHtmlQuality \/ ScoreCssQuality

-----------------------------------------------------------------------------
(* extract_avg_ccn_from_lizard_output (analyzer.py 103-108).               *)

Digits == << "0", "1", "2", "3", "4", "5", "6", "7", "8", "9" >>
DigitsAndDot == Range(Digits) \cup { "." }

DigitValue(c) == (CHOOSE i \in DOMAIN Digits : Digits[i] = c) - 1

RECURSIVE DecimalValue(_)
DecimalValue(digits) ==
    IF digits = << >> THEN 0
    ELSE 10 * DecimalValue(SubSeq(digits, 1, Len(digits) - 1))
            + DigitValue(digits[Len(digits)])

\* What float() raises on a text that is no number.
ValueError == << 1, 0 >>

\* float(text) for a text of digits and dots
ParseFloat(text) ==
    LET dots == { i \in DOMAIN text : text[i] = "." }
    IN  IF Cardinality(dots) > 1 \/ Cardinality(dots) = Len(text) THEN ValueError
        ELSE LET digits == SelectSeq(text, LAMBDA c : c # ".")
                 decimals == IF dots = { } THEN 0 ELSE Len(text) - (CHOOSE i \in dots : TRUE)
             IN  Rat(DecimalValue(digits), Pow10(decimals))

AvgCcnLabel == << "A", "v", "g", "C", "C", "N", ":" >>

\* The first index after position i of output that holds no whitespace
RECURSIVE SkipWhitespace(_, _)
SkipWhitespace(output, i) ==
    IF i <= Len(output) /\ output[i] \in Whitespace
    THEN SkipWhitespace(output, i + 1) ELSE i

\* The run of digits and dots of output that starts at position i
RECURSIVE DigitRun(_, _)
DigitRun(output, i) ==
    IF i <= Len(output) /\ output[i] \in DigitsAndDot
    THEN << output[i] >> \o DigitRun(output, i + 1) ELSE << >>

\* re.search(r'AvgCCN:\s*([\d.]+)', output): the positions where it matches
AvgCcnMatches(output) ==
    { i \in 1 .. (Len(output) - Len(AvgCcnLabel) + 1) :
        /\ SubSeq(output, i, i + Len(AvgCcnLabel) - 1) = AvgCcnLabel
        /\ DigitRun(output, SkipWhitespace(output, i + Len(AvgCcnLabel))) # << >> }

\* Mutant: a slope of 12 points per unit of complexity.
extract_avg_ccn_Slope12(output) ==
    LET found == AvgCcnMatches(output)
    IN  IF found # { }
        THEN LET first == CHOOSE i \in found : \A j \in found : i <= j
                 avg_ccn == ParseFloat(DigitRun(output,
                                SkipWhitespace(output, first + Len(AvgCcnLabel))))
             IN  IF IsFault(avg_ccn) THEN ValueError
                 ELSE RMax(Num(0), RMin(Num(100),
                          RSub(Num(100), RMul(RSub(avg_ccn, Num(1)), Num(12)))))
        ELSE Num(50)

\* Mutant: a report without the figure scores 0.
extract_avg_ccn_DefaultZero(output) ==
    LET found == AvgCcnMatches(output)
    IN  IF found # { }
        THEN LET first == CHOOSE i \in found : \A j \in found : i <= j
                 avg_ccn == ParseFloat(DigitRun(output,
                                SkipWhitespace(output, first + Len(AvgCcnLabel))))
             IN  IF IsFault(avg_ccn) THEN ValueError
                 ELSE RMax(Num(0), RMin(Num(100),
                          RSub(Num(100), RMul(RSub(avg_ccn, Num(1)), Rat(125, 10)))))
        ELSE Num(0)

extract_avg_ccn_from_lizard_output(output) ==
    LET found == AvgCcnMatches(output)
    IN  IF found # { }
        THEN LET first == CHOOSE i \in found : \A j \in found : i <= j
                 avg_ccn == ParseFloat(DigitRun(output,
                                SkipWhitespace(output, first + Len(AvgCcnLabel))))
             IN  IF IsFault(avg_ccn) THEN ValueError
                 ELSE RMax(Num(0), RMin(Num(100),
                          RSub(Num(100), RMul(RSub(avg_ccn, Num(1)), Rat(125, 10)))))
        ELSE Num(50)

-----------------------------------------------------------------------------
(* analyze_repo_githired (analyzer.py 183-277).                            *)

\* Bound: the largest number of folders of a cloned repository.
MaxFolders == 2

F_py == [ ext |-> "py", decodable |-> TRUE, content |-> << "x", " ", "=", " ", "1", "\n" >>, counts |-> NoCounts ]
F_md == [ ext |-> "md", decodable |-> TRUE, content |-> << "x", " ", "=", " ", "1", "\n" >>, counts |-> NoCounts ]

\* an HTML file that score_html_quality gives 100
F_htmlA ==
    [ ext |-> "html", decodable |-> TRUE, content |-> << " ", "<", "p", ">", "\n" >>,
      counts |-> [ NoCounts EXCEPT !.semantic_count = 6, !.open_tags = 7, !.close_tags = 6 ] ]

\* an HTML file with two of its three images described: 86.67
F_htmlB ==
    [ ext |-> "html", decodable |-> TRUE, content |-> << " ", "<", "p", ">", "\n" >>,
      counts |-> [ NoCounts EXCEPT !.semantic_count = 3, !.img_tags = 3, !.img_with_alt = 2,
                                   !.open_tags = 9, !.close_tags = 6 ] ]

F_htmlBad == [ ext |-> "html", decodable |-> FALSE, content |-> << >>, counts |-> NoCounts ]

\* a stylesheet that score_css_quality gives 100
F_cssA ==
    [ ext |-> "css", decodable |-> TRUE, content |-> << "a", "{", "}", "\n" >>,
      counts |-> [ NoCounts EXCEPT !.properties = 4, !.distinct_properties = 4,
                                   !.rule_count = 3, !.comment_blocks = 5 ] ]

F_cssBad == [ ext |-> "css", decodable |-> FALSE, content |-> << >>, counts |-> NoCounts ]

FolderFiles ==
    { << >>, << F_py >>, << F_htmlA, F_htmlB, F_htmlBad >>, << F_cssA, F_md >>,
      << F_cssBad >>, << F_py, F_htmlB, F_cssA >>, << F_htmlBad >> }

\* What lizard prints for a folder (the text run_lizard_on_folder returns).
LizardOutputs ==
    { << "A", "v", "g", "C", "C", "N", ":", " ", "1" >>, << "A", "v", "g", "C", "C", "N", ":", " ", "1", ".", "5" >>, << "E", "r", "r", "o", "r" >>,
      << "A", "v", "g", "C", "C", "N", ":", " ", "." >> }

\* any(f.endswith(SUPPORTED_CODE_EXTS) for f in files)
HasCodeFile(files) == \E i \in DOMAIN files : files[i].ext \in SUPPORTED_CODE_EXTS

\* A folder: its files that matter, the text lizard prints when it is run on it,
\* and the number of its other files (none of a scored extension).
Folders(other_counts) ==
    { [ files |-> fs, lizard_output |-> out, others |-> n ] :
        fs \in FolderFiles, out \in LizardOutputs, n \in other_counts }
    \ { d \in [ files : FolderFiles, lizard_output : LizardOutputs, others : other_counts ] :
          ~HasCodeFile(d.files) /\ d.lizard_output # << "E", "r", "r", "o", "r" >> }

\* The root of the clone may hold many other files (images, data, the objects
\* of .git): enough to bring the structure bonus to its cap.
RootOtherCounts == { 0, 150 }

RECURSIVE TreesOfLen(_)
TreesOfLen(n) ==
    IF n = 1 THEN { << d >> : d \in Folders(RootOtherCounts) }
    ELSE { Append(t, d) : t \in TreesOfLen(n - 1), d \in Folders({ 0 }) }

\* os.walk yields the root first: a clone has at least one folder.
Trees == UNION { TreesOfLen(n) : n \in 1 .. MaxFolders }

RepoInputs ==
    { [ clone_ok |-> TRUE, tree |-> t ] : t \in Trees }
    \cup { [ clone_ok |-> FALSE, tree |-> << >> ] }

\* statistics.mean
Mean(scores) == RDiv(RSum(scores), Num(Len(scores)))

\* Mutant: a file that could not be read is scored 0.
ScoresOf_ErrorAsZero(files, ext) ==
    LET Result(f) == IF ext = "html" THEN score_html_quality(f) ELSE score_css_quality(f)
        scored == SelectSeq(files, LAMBDA f : f.ext = ext)
    IN  [ i \in DOMAIN scored |->
            IF "score" \in DOMAIN Result(scored[i]) THEN Result(scored[i]).score ELSE Num(0) ]

\* The scores of the files of one folder with extension ext that were read
ScoresOf(files, ext) ==
    LET Result(f) == IF ext = "html" THEN score_html_quality(f) ELSE score_css_quality(f)
        scored == SelectSeq(files, LAMBDA f : f.ext = ext /\ "score" \in DOMAIN Result(f))
    IN  [ i \in DOMAIN scored |-> Result(scored[i]).score ]

NoWeights == [ lizard |-> Num(0), html |-> Num(0), css |-> Num(0), structure |-> Num(0) ]

\* Mutant: the branch for code and stylesheets sets the weight of html.
WeightsFor_CssBranchSetsHtml(has_code, has_html, has_css) ==
    LET base == [ lizard |-> Num(0), html |-> Num(0), css |-> Num(0),
                  structure |-> Rat(15, 100) ]
    IN  IF has_code /\ has_html /\ has_css
        THEN [ base EXCEPT !.lizard = Rat(35, 100), !.html = Rat(25, 100), !.css = Rat(25, 100) ]
        ELSE IF has_code /\ has_html
        THEN [ base EXCEPT !.lizard = Rat(5, 10), !.html = Rat(35, 100) ]
        ELSE IF has_code /\ has_css
        THEN [ base EXCEPT !.lizard = Rat(5, 10), !.html = Rat(35, 100) ]
        ELSE IF has_code
        THEN [ base EXCEPT !.lizard = Rat(85, 100) ]
        ELSE IF has_html /\ has_css
        THEN [ base EXCEPT !.html = Rat(45, 100), !.css = Rat(4, 10) ]
        ELSE IF has_html
        THEN [ base EXCEPT !.html = Rat(85, 100) ]
        ELSE IF has_css
        THEN [ base EXCEPT !.css = Rat(85, 100) ]
        ELSE base

\* Lines 235-255: the weights for the kinds of evidence found
WeightsFor(has_code, has_html, has_css) ==
    LET base == [ lizard |-> Num(0), html |-> Num(0), css |-> Num(0),
                  structure |-> Rat(15, 100) ]
    IN  IF has_code /\ has_html /\ has_css
        THEN [ base EXCEPT !.lizard = Rat(35, 100), !.html = Rat(25, 100), !.css = Rat(25, 100) ]
        ELSE IF has_code /\ has_html
        THEN [ base EXCEPT !.lizard = Rat(5, 10), !.html = Rat(35, 100) ]
        ELSE IF has_code /\ has_css
        THEN [ base EXCEPT !.lizard = Rat(5, 10), !.css = Rat(35, 100) ]
        ELSE IF has_code
        THEN [ base EXCEPT !.lizard = Rat(85, 100) ]
        ELSE IF has_html /\ has_css
        THEN [ base EXCEPT !.html = Rat(45, 100), !.css = Rat(4, 10) ]
        ELSE IF has_html
        THEN [ base EXCEPT !.html = Rat(85, 100) ]
        ELSE IF has_css
        THEN [ base EXCEPT !.css = Rat(85, 100) ]
        ELSE base

\* Mutant: the structure bonus without its cap of 15.
StructureBonus_NoCap(files, folders) == RDiv(Num(files + folders), Num(10))

\* structure_bonus = min(15, (file_count + folder_count) / 10)
StructureBonus(files, folders) == RMin(Num(15), RDiv(Num(files + folders), Num(10)))

\* Mutant: the fallback answers the structure bonus of the counts.
FallbackScore_FromCounts(files, folders) == StructureBonus(files, folders)

\* Line 226: the fixed score of a repository without evidence
FallbackScore(files, folders) == Num(15)

NoOutcome == [ kind |-> "none" ]

RepoInit ==
    /\ repo_input \in RepoInputs
    /\ rpc = "start"
    /\ temp_dir = "none"
    /\ walked = 0
    /\ html_scores = << >>
    /\ css_scores = << >>
    /\ lizard_scores = << >>
    /\ file_count = 0
    /\ folder_count = 0
    /\ weights = NoWeights
    /\ outcome = NoOutcome

RepoIdle ==
    /\ repo_input = [ clone_ok |-> FALSE, tree |-> << >> ]
    /\ rpc = "idle"
    /\ temp_dir = "none"
    /\ walked = 0
    /\ html_scores = << >>
    /\ css_scores = << >>
    /\ lizard_scores = << >>
    /\ file_count = 0
    /\ folder_count = 0
    /\ weights = NoWeights
    /\ outcome = NoOutcome

\* Mutant: the removal at the end of the try block instead of a finally
\* clause, so that a failed clone skips it.
RepoClone_NoFinally ==
    /\ rpc = "start"
    /\ temp_dir' = "exists"
    /\ IF repo_input.clone_ok
       THEN rpc' = "walk" /\ UNCHANGED outcome
       ELSE rpc' = "done" /\ outcome' = [ kind |-> "raise", error |-> "GitCommandError" ]
    /\ UNCHANGED << repo_input, walked, html_scores, css_scores, lizard_scores,
                    file_count, folder_count, weights >>
    /\ UNCHANGED not_rvars

\* Lines 189-197: the temporary directory and the clone, which may raise.
RepoClone ==
    /\ rpc = "start"
    /\ temp_dir' = "exists"
    /\ IF repo_input.clone_ok
       THEN rpc' = "walk" /\ UNCHANGED outcome
       ELSE rpc' = "finally" /\ outcome' = [ kind |-> "raise", error |-> "GitCommandError" ]
    /\ UNCHANGED << repo_input, walked, html_scores, css_scores, lizard_scores,
                    file_count, folder_count, weights >>
    /\ UNCHANGED not_rvars

\* Lines 199-217: one folder of os.walk.
RepoWalkFolder ==
    /\ rpc = "walk"
    /\ walked < Len(repo_input.tree)
    /\ LET folder == repo_input.tree[walked + 1]
           lizard_score == extract_avg_ccn_from_lizard_output(folder.lizard_output)
       IN  /\ walked' = walked + 1
           /\ folder_count' = folder_count + 1
           /\ file_count' = file_count + Len(folder.files) + folder.others
           /\ IF HasCodeFile(folder.files) /\ IsFault(lizard_score)
              THEN /\ rpc' = "finally"
                   /\ outcome' = [ kind |-> "raise", error |-> "ValueError" ]
                   /\ UNCHANGED << lizard_scores, html_scores, css_scores >>
              ELSE /\ lizard_scores' = IF HasCodeFile(folder.files)
                                       THEN Append(lizard_scores, lizard_score)
                                       ELSE lizard_scores
                   /\ html_scores' = html_scores \o ScoresOf(folder.files, "html")
                   /\ css_scores' = css_scores \o ScoresOf(folder.files, "css")
                   /\ UNCHANGED << rpc, outcome >>
    /\ UNCHANGED << repo_input, temp_dir, weights >>
    /\ UNCHANGED not_rvars

\* Lines 219-274: the fallback without evidence, else the weighted blend.
RepoAggregate ==
    /\ rpc = "walk"
    /\ walked = Len(repo_input.tree)
    /\ LET has_code == lizard_scores # << >>
           has_html == html_scores # << >>
           has_css == css_scores # << >>
           avg_lizard == IF has_code THEN Mean(lizard_scores) ELSE Num(0)
           avg_html == IF has_html THEN Mean(html_scores) ELSE Num(0)
           avg_css == IF has_css THEN Mean(css_scores) ELSE Num(0)
           structure_bonus == StructureBonus(file_count, folder_count)
           used == WeightsFor(has_code, has_html, has_css)
           overall_score ==
               Round(RAdd(RAdd(RAdd(RMul(avg_lizard, used.lizard), RMul(avg_html, used.html)),
                               RMul(avg_css, used.css)), structure_bonus), 2)
       IN  IF ~(has_code \/ has_html \/ has_css)
           THEN /\ outcome' = [ kind |-> "return",
                                overall_score |-> FallbackScore(file_count, folder_count),
                                note |-> "No supported files found. Structure bonus only." ]
                /\ UNCHANGED weights
           ELSE /\ weights' = used
                /\ outcome' = [ kind |-> "return",
                                overall_score |-> overall_score,
                                avg_lizard_score |-> Round(avg_lizard, 2),
                                avg_html_score |-> Round(avg_html, 2),
                                avg_css_score |-> Round(avg_css, 2),
                                structure_bonus |-> Round(structure_bonus, 2),
                                file_count |-> file_count,
                                folder_count |-> folder_count,
                                weights_used |-> used ]
    /\ rpc' = "finally"
    /\ UNCHANGED << repo_input, temp_dir, walked, html_scores, css_scores, lizard_scores,
                    file_count, folder_count >>
    /\ UNCHANGED not_rvars

\* Lines 276-277: the temporary directory is removed, then the call ends.
RepoFinally ==
    /\ rpc = "finally"
    /\ temp_dir' = "removed"
    /\ rpc' = "done"
    /\ UNCHANGED << repo_input, walked, html_scores, css_scores, lizard_scores,
                    file_count, folder_count, weights, outcome >>
    /\ UNCHANGED not_rvars

RepoNext == RepoClone \/ RepoWalkFolder \/ RepoAggregate \/ RepoFinally

-----------------------------------------------------------------------------
(* analyze_user_code_quality (analyzer.py 25-83).                          *)

MAX_REPOS == 10
MAX_FILES_PER_REPO == 10

\* Bound: the longest list of repositories enumerated in full.
MaxUserRepos == 2

U_plain == F_py

\* a comment line and a statement: 15 + 25 + 10 + 0
U_commented ==
    [ ext |-> "py", decodable |-> TRUE,
      content |-> << "#", " ", "c", "\n", "x", " ", "=", " ", "1", "\n" >>, counts |-> NoCounts ]

U_bad == [ ext |-> "py", decodable |-> FALSE, content |-> << >>, counts |-> NoCounts ]

\* The files of a clone with an extension of SUPPORTED_CODE_EXTS.
SourceFileLists ==
    { << >>, << U_plain >>, << U_plain, U_commented >>, << U_plain, U_bad, U_commented >>,
      << U_bad >> }

GoodRepo == [ fork |-> FALSE, clone_ok |-> TRUE, files |-> << U_plain >> ]

UserRepoKinds ==
    { [ fork |-> FALSE, clone_ok |-> TRUE, files |-> fs ] : fs \in SourceFileLists }
    \cup { [ fork |-> TRUE, clone_ok |-> TRUE, files |-> << U_plain >> ],
           [ fork |-> FALSE, clone_ok |-> FALSE, files |-> << >> ] }

RECURSIVE UserReposOfLen(_)
UserReposOfLen(n) ==
    IF n = 0 THEN { << >> }
    ELSE { Append(l, r) : l \in UserReposOfLen(n - 1), r \in UserRepoKinds }

\* Every list of at most MaxUserRepos repositories, and the lists that hold
\* enough analysable repositories for the limit MAX_REPOS to be met.
UserRepoLists ==
    UNION { UserReposOfLen(n) : n \in 0 .. MaxUserRepos }
    \cup { << a >> \o [ i \in 1 .. k |-> GoodRepo ] \o << b >> :
             a \in UserRepoKinds, b \in UserRepoKinds, k \in { MAX_REPOS - 1, MAX_REPOS } }

\* The elements of seq at the indices of I, in order
PickIndices(seq, I) ==
    LET F[k \in 0 .. Len(seq)] ==
            IF k = 0 THEN << >>
            ELSE IF k \in I THEN Append(F[k - 1], seq[k]) ELSE F[k - 1]
    IN  F[Len(seq)]

\* _sample_source_files: random.sample(candidates, min(len(candidates),
\* MAX_FILES_PER_REPO)), every outcome of the draw (the order of a sample does
\* not bear on its length or its mean).
sample_source_files(candidates) ==
    { PickIndices(candidates, I) :
        I \in { J \in SUBSET DOMAIN candidates :
                  Cardinality(J) = MinInt(Len(candidates), MAX_FILES_PER_REPO) } }

UserInit ==
    /\ user_repos \in UserRepoLists
    /\ upc = "loop"
    /\ next_repo = 0
    /\ results = << >>
    /\ tmp_dirs = 0
    /\ cloned = 0
    /\ user_outcome = NoOutcome

UserIdle ==
    /\ user_repos = << >>
    /\ upc = "idle"
    /\ next_repo = 0
    /\ results = << >>
    /\ tmp_dirs = 0
    /\ cloned = 0
    /\ user_outcome = NoOutcome

\* Lines 49-50: a fork is passed over.
UserSkipFork ==
    /\ upc = "loop"
    /\ next_repo < Len(user_repos)
    /\ user_repos[next_repo + 1].fork
    /\ next_repo' = next_repo + 1
    /\ UNCHANGED << user_repos, upc, results, tmp_dirs, cloned, user_outcome >>
    /\ UNCHANGED not_uvars

\* Lines 51-52: the loop ends once MAX_REPOS results are held.
UserBreak ==
    /\ upc = "loop"
    /\ next_repo < Len(user_repos)
    /\ ~user_repos[next_repo + 1].fork
    /\ Len(results) >= MAX_REPOS
    /\ upc' = "summary"
    /\ UNCHANGED << user_repos, next_repo, results, tmp_dirs, cloned, user_outcome >>
    /\ UNCHANGED not_uvars

\* Lines 54-56 (and 71-75 when the clone fails): mkdtemp and the shallow clone.
UserClone ==
    /\ upc = "loop"
    /\ next_repo < Len(user_repos)
    /\ ~user_repos[next_repo + 1].fork
    /\ Len(results) < MAX_REPOS
    /\ cloned' = cloned + 1
    /\ IF user_repos[next_repo + 1].clone_ok
       THEN /\ tmp_dirs' = tmp_dirs + 1
            /\ upc' = "cloned"
            /\ UNCHANGED next_repo
       ELSE \* except: the error is printed; finally: the directory is removed
            /\ next_repo' = next_repo + 1
            /\ UNCHANGED << tmp_dirs, upc >>
    /\ UNCHANGED << user_repos, results, user_outcome >>
    /\ UNCHANGED not_uvars

\* Lines 58-75: the sample, its scores, the entry of the repository, and the
\* removal of the temporary directory.
UserScore ==
    /\ upc = "cloned"
    /\ \E sampled \in sample_source_files(user_repos[next_repo + 1].files) :
          IF sampled = << >>
          THEN \* line 60 removes the directory, and line 75 removes it again:
               \* on_rm_error calls os.chmod on the missing path, which raises.
               /\ tmp_dirs' = tmp_dirs - 1
               /\ upc' = "done"
               /\ user_outcome' = [ kind |-> "raise", error |-> "FileNotFoundError" ]
               /\ UNCHANGED << next_repo, results >>
          ELSE /\ tmp_dirs' = tmp_dirs - 1
               /\ upc' = "loop"
               /\ next_repo' = next_repo + 1
               /\ UNCHANGED user_outcome
               /\ IF \E i \in DOMAIN sampled :
                        "score" \notin DOMAIN score_code_readability(sampled[i])
                  THEN \* KeyError at line 63, printed at line 72
                       UNCHANGED results
                  ELSE LET scores == [ i \in DOMAIN sampled |->
                                          score_code_readability(sampled[i]).score ]
                       IN  results' = Append(results,
                               [ repo |-> next_repo + 1,
                                 sampled_files |-> Len(sampled),
                                 avg_quality_score |-> Round(Mean(scores), 2) ])
    /\ UNCHANGED << user_repos, cloned >>
    /\ UNCHANGED not_uvars

\* Lines 77-83: the summary.
UserSummary ==
    /\ upc = "summary" \/ (upc = "loop" /\ next_repo = Len(user_repos))
    /\ upc' = "done"
    /\ user_outcome' =
          [ kind |-> "return",
            average_code_quality |->
                IF results # << >>
                THEN Round(Mean([ i \in DOMAIN results |-> results[i].avg_quality_score ]), 2)
                ELSE Num(0),
            repo_scores |-> results,
            repos_analysed |-> Len(results) ]
    /\ UNCHANGED << user_repos, next_repo, results, tmp_dirs, cloned >>
    /\ UNCHANGED not_uvars

UserNext == UserSkipFork \/ UserBreak \/ UserClone \/ UserScore \/ UserSummary

-----------------------------------------------------------------------------
(* Calls of extract_avg_ccn_from_lizard_output on report texts.            *)

\* Bound: the longest run of digits and dots after the label.
MaxRunLen == 3

RunChars == { "0", "1", "9", "." }

RECURSIVE RunsOfLen(_)
RunsOfLen(n) ==
    IF n = 0 THEN { << >> }
    ELSE { Append(r, c) : r \in RunsOfLen(n - 1), c \in RunChars }

\* The text run_lizard_on_folder returns when lizard cannot be run (line 101).
LizardErrorText ==
    << "E", "r", "r", "o", "r", " ", "r", "u", "n", "n", "i", "n", "g", " ", "L", "i", "z", "a", "r", "d", ":", " ", "[", "E", "r", "r", "n", "o", " ", "2", "]" >>

\* Texts without the label, with the label in another case, and with the label
\* but nothing of a number after it.
ReportsWithoutFigure ==
    { << >>, LizardErrorText,
      << "a", "v", "g", "c", "c", "n", ":", " ", "1", "\n" >>,
      << "C", "C", "N", ":", " ", "9", "\n" >>,
      << "A", "v", "g", "C", "C", "N", ":", " ", "x", "\n" >> }

\* Reports that hold the label followed by a run of digits and dots (the run
\* of length 0 gives the bare label), and one report with two figures.
LizardReports ==
    { << "T", "o", "t", "a", "l", " " >> \o AvgCcnLabel \o ws \o r \o << "\n" >> :
        ws \in { << >>, << " " >> },
        r \in UNION { RunsOfLen(n) : n \in 0 .. MaxRunLen } }
    \cup ReportsWithoutFigure
    \cup { << "A", "v", "g", "C", "C", "N", ":", " ", "9", "\n", "A", "v", "g", "C", "C", "N", ":", " ", "1", "\n" >> }

LizardInit ==
    /\ report \in LizardReports
    /\ lpc = "start"
    /\ ccn_score = NoOutcome

LizardIdle ==
    /\ report = << >>
    /\ lpc = "idle"
    /\ ccn_score = NoOutcome

\* Lines 103-108: the call; float() may raise ValueError, which nothing catches.
ExtractAvgCcn ==
    /\ lpc = "start"
    /\ LET value == extract_avg_ccn_from_lizard_output(report)
       IN  ccn_score' = IF IsFault(value)
                        THEN [ kind |-> "raise", error |-> "ValueError" ]
                        ELSE [ kind |-> "return", value |-> value ]
    /\ lpc' = "done"
    /\ UNCHANGED report
    /\ UNCHANGED not_lvars

LizardNext == ExtractAvgCcn

-----------------------------------------------------------------------------
(* Calls of extract_skills_from_text on texts.                             *)

\* Bound: the largest number of words of a text.
MaxWords == 2

SkillWords ==
    { << "G", "o" >>, << "M", "y", "S", "Q", "L" >>, << "r", "e", "a", "c", "t", "s" >>, << "K", "8", "S" >>, << "x" >>,
      << "m", "y", LongS, "q", "l" >>,
      << "k", "8", LongS >> }

WordSeparators == { << >>, << " " >> }

RECURSIVE TextsOfWords(_)
TextsOfWords(n) ==
    IF n = 0 THEN { << >> }
    ELSE IF n = 1 THEN SkillWords
    ELSE { t \o sep \o w : t \in TextsOfWords(n - 1), sep \in WordSeparators, w \in SkillWords }

\* The argument: None, or a str.
SkillTexts ==
    { [ is_none |-> TRUE, value |-> << >> ] }
    \cup { [ is_none |-> FALSE, value |-> t ] :
             t \in UNION { TextsOfWords(n) : n \in 0 .. MaxWords } }

\* list(set(...)): the elements of S once each, in any order
ListsOfSet(S) ==
    { l \in [ 1 .. Cardinality(S) -> S ] : \A i, j \in DOMAIN l : l[i] = l[j] => i = j }

SkillsInit ==
    /\ text_input \in SkillTexts
    /\ spc = "start"
    /\ found_skills = << >>

SkillsIdle ==
    /\ text_input = [ is_none |-> TRUE, value |-> << >> ]
    /\ spc = "idle"
    /\ found_skills = << >>

\* Lines 212-241: the call; None is as false as the empty str at line 214.
ExtractSkills ==
    /\ spc = "start"
    /\ found_skills' \in
          IF text_input.is_none THEN { << >> }
          ELSE ListsOfSet(extract_skills_from_text(text_input.value))
    /\ spc' = "done"
    /\ UNCHANGED text_input
    /\ UNCHANGED not_svars

SkillsNext == ExtractSkills

-----------------------------------------------------------------------------
(* get_activity_score (app.py 1090-1265).                                  *)

\* Bounds: the longest lists of repositories and of events enumerated in full.
MaxActivityRepos == 2
MaxEvents == 2

\* The age of the account in whole days (timedelta.days).
AccountAgeDays == { 0, 90, 200, 360, 3650 }

\* A repository of the answer: whether it has updated_at, and the whole days
\* since then.
R_recent == [ has_updated_at |-> TRUE, days_since_update |-> 10 ]
R_old    == [ has_updated_at |-> TRUE, days_since_update |-> 181 ]
R_never  == [ has_updated_at |-> FALSE, days_since_update |-> 0 ]

ActivityRepoKinds == { R_recent, R_old, R_never }

RECURSIVE ActivityReposOfLen(_)
ActivityReposOfLen(n) ==
    IF n = 0 THEN { << >> }
    ELSE { Append(l, r) : l \in ActivityReposOfLen(n - 1), r \in ActivityRepoKinds }

\* Every list of 1 .. MaxActivityRepos repositories, and a list longer than the
\* 20 repositories the handler looks at.
ActivityRepoLists ==
    UNION { ActivityReposOfLen(n) : n \in 1 .. MaxActivityRepos }
    \cup { [ i \in 1 .. 25 |-> R_recent ] }

\* An event: its type, whether created_at parses, its age in days, and the
\* number of commits of its payload.
E_push0   == [ type |-> "PushEvent", created_ok |-> TRUE, days_ago |-> 5, commits |-> 0 ]
E_push3   == [ type |-> "PushEvent", created_ok |-> TRUE, days_ago |-> 5, commits |-> 3 ]
E_pushOld == [ type |-> "PushEvent", created_ok |-> TRUE, days_ago |-> 100, commits |-> 3 ]
E_watch   == [ type |-> "WatchEvent", created_ok |-> TRUE, days_ago |-> 5, commits |-> 0 ]
E_pushBad == [ type |-> "PushEvent", created_ok |-> FALSE, days_ago |-> 0, commits |-> 1 ]

EventKinds == { E_push0, E_push3, E_pushOld, E_watch, E_pushBad }

RECURSIVE EventsOfLen(_)
EventsOfLen(n) ==
    IF n = 0 THEN { << >> }
    ELSE { Append(l, e) : l \in EventsOfLen(n - 1), e \in EventKinds }

\* Every list of at most MaxEvents events, and a full page of 100 pushes.
EventLists ==
    UNION { EventsOfLen(n) : n \in 0 .. MaxEvents }
    \cup { [ i \in 1 .. 100 |-> E_push3 ] }

\* What the events request does: answers 200 with a list, answers another
\* status, or raises (no connection).
EventAnswers ==
    { [ status |-> 200, events |-> l ] : l \in EventLists }
    \cup { [ status |-> 403, events |-> << >> ], [ status |-> 0, events |-> << >> ] }

ActivityInputs ==
    { [ user_status |-> 200, created_ok |-> TRUE, age_days |-> d, repos_status |-> 200,
        repos |-> rs, events_answer |-> ea ] :
          d \in AccountAgeDays, rs \in ActivityRepoLists, ea \in EventAnswers }
    \cup { [ user_status |-> us, created_ok |-> ok, age_days |-> d, repos_status |-> st,
             repos |-> rs, events_answer |-> [ status |-> 200, events |-> << >> ] ] :
             us \in { 200, 404 }, ok \in BOOLEAN, d \in { 0, 360 }, st \in { 200, 500 },
             rs \in { << >>, << R_recent >> } }

NoScores ==
    [ commit_frequency |-> Num(0), recent_activity |-> Num(0), consistency |-> Num(0),
      repository_activity |-> Num(0), growth_trend |-> Num(0) ]

\* Mutant: an account without repositories is answered as an error.
EmptyAccountResponse_Error == [ status |-> 500, error |-> "Activity scoring failed" ]

\* Lines 1121-1137: the answer for an account without repositories
EmptyAccountResponse ==
    [ status |-> 200, activity_score |-> Num(0), breakdown |-> NoScores,
      details |-> [ total_repos |-> 0, active_repos |-> 0, recent_commits |-> 0,
                    account_age_months |-> Num(0) ] ]

\* Lines 1146-1163: the repositories among the first 20 updated at most 180 days ago
RecentlyUpdated(repos) ==
    Cardinality({ i \in 1 .. MinInt(Len(repos), 20) :
                    repos[i].has_updated_at /\ repos[i].days_since_update <= 180 })

\* Lines 1176-1183: the commits of the push events younger than 90 days
RECURSIVE RecentCommits(_)
RecentCommits(events) ==
    IF events = << >> THEN 0
    ELSE (IF Head(events).type = "PushEvent" /\ Head(events).days_ago < 90
          THEN MaxInt(Head(events).commits, 1) ELSE 0)
         + RecentCommits(Tail(events))

\* Mutant: the commit frequency without its cap of 100.
CommitFrequencyScore_NoCap(commits, age_months) ==
    RMul(RDiv(Num(commits), RMax(RDiv(age_months, Num(3)), Num(1))), Num(5))

\* Lines 1196-1197
CommitFrequencyScore(commits, age_months) ==
    RMin(RMul(RDiv(Num(commits), RMax(RDiv(age_months, Num(3)), Num(1))), Num(5)), Num(100))

\* Lines 1201 and 1218: the share of the repositories counted, of 100
ShareScore(count, n_repos) ==
    RMin(RMul(RDiv(Num(count), Num(MaxInt(n_repos, 1))), Num(100)), Num(100))

\* Lines 1205-1214
ConsistencyScore(age_months, recent_count, commits) ==
    IF RLe(Num(12), age_months)
    THEN Num(MinInt(50 + (IF recent_count > 0 THEN 30 ELSE 0)
                       + (IF commits > 50 THEN 20 ELSE 0), 100))
    ELSE Num(MinInt(recent_count * 10, 60))

\* Lines 1222-1229
GrowthTrendScore(age_months, n_repos) ==
    IF RLt(Num(6), age_months)
    THEN LET expected_activity == RMul(RDiv(age_months, Num(12)), Num(10))
             growth_ratio == RDiv(Num(n_repos), RMax(expected_activity, Num(1)))
         IN  RMin(RMul(growth_ratio, Num(50)), Num(100))
    ELSE Num(MinInt(n_repos * 15, 100))

\* Lines 1232-1238
FinalScore(s) ==
    RAdd(RAdd(RAdd(RAdd(RMul(s.commit_frequency, Rat(30, 100)),
                        RMul(s.recent_activity, Rat(25, 100))),
                   RMul(s.consistency, Rat(20, 100))),
              RMul(s.repository_activity, Rat(15, 100))),
         RMul(s.growth_trend, Rat(10, 100)))

ActivityInit ==
    /\ activity_input \in ActivityInputs
    /\ apc = "start"
    /\ account_age_months = Num(0)
    /\ total_commits = 0
    /\ recent_activity_count = 0
    /\ active_repos = 0
    /\ sub_scores = NoScores
    /\ final_score = Num(0)
    /\ activity_response = NoResponse

ActivityIdle ==
    /\ activity_input = [ user_status |-> 404, created_ok |-> FALSE, age_days |-> 0,
                          repos_status |-> 500, repos |-> << >>,
                          events_answer |-> [ status |-> 0, events |-> << >> ] ]
    /\ apc = "idle"
    /\ account_age_months = Num(0)
    /\ total_commits = 0
    /\ recent_activity_count = 0
    /\ active_repos = 0
    /\ sub_scores = NoScores
    /\ final_score = Num(0)
    /\ activity_response = NoResponse

\* Lines 1103-1142: the user, the repositories, the short cut for an account
\* without repositories, and the age of the account.
ActivityFetch ==
    /\ apc = "start"
    /\ IF activity_input.user_status # 200
       THEN /\ activity_response' = [ status |-> 404, error |-> "User not found" ]
            /\ apc' = "done"
            /\ UNCHANGED account_age_months
       ELSE IF activity_input.repos_status # 200
       THEN /\ activity_response' = [ status |-> 500, error |-> "Failed to fetch repositories" ]
            /\ apc' = "done"
            /\ UNCHANGED account_age_months
       ELSE IF activity_input.repos = << >>
       THEN /\ activity_response' = EmptyAccountResponse
            /\ apc' = "done"
            /\ UNCHANGED account_age_months
       ELSE IF ~activity_input.created_ok
       THEN \* datetime.fromisoformat raises; the handler's except answers
            /\ activity_response' = [ status |-> 500, error |-> "Activity scoring failed" ]
            /\ apc' = "done"
            /\ UNCHANGED account_age_months
       ELSE /\ account_age_months' = RMax(RDiv(Num(activity_input.age_days), Num(30)), Num(1))
            /\ apc' = "repos"
            /\ UNCHANGED activity_response
    /\ UNCHANGED << activity_input, total_commits, recent_activity_count, active_repos,
                    sub_scores, final_score >>
    /\ UNCHANGED not_avars

\* Lines 1143-1163: the loop over the first 20 repositories.
ActivityAnalyseRepos ==
    /\ apc = "repos"
    /\ recent_activity_count' = RecentlyUpdated(activity_input.repos)
    /\ active_repos' = RecentlyUpdated(activity_input.repos)
    /\ apc' = "events"
    /\ UNCHANGED << activity_input, account_age_months, total_commits, sub_scores,
                    final_score, activity_response >>
    /\ UNCHANGED not_avars

\* Lines 1165-1190: the recent commits from the events, or the estimate when
\* the request or the reading of an event raises.
ActivityEvents ==
    /\ apc = "events"
    /\ LET answer == activity_input.events_answer
           raises == \/ answer.status = 0
                     \/ /\ answer.status = 200
                        /\ \E i \in DOMAIN answer.events :
                              /\ answer.events[i].type = "PushEvent"
                              /\ ~answer.events[i].created_ok
       IN  total_commits' =
              IF raises THEN MaxInt(Len(activity_input.repos) * 5, 10)
              ELSE IF answer.status = 200 THEN RecentCommits(answer.events)
              ELSE total_commits
    /\ apc' = "score"
    /\ UNCHANGED << activity_input, account_age_months, recent_activity_count, active_repos,
                    sub_scores, final_score, activity_response >>
    /\ UNCHANGED not_avars

\* Lines 1192-1261: the five sub-scores, the final score and the answer.
ActivityScore ==
    /\ apc = "score"
    /\ LET n_repos == Len(activity_input.repos)
           s == [ commit_frequency |-> CommitFrequencyScore(total_commits, account_age_months),
                  recent_activity |-> ShareScore(recent_activity_count, n_repos),
                  consistency |-> ConsistencyScore(account_age_months, recent_activity_count,
                                                   total_commits),
                  repository_activity |-> ShareScore(active_repos, n_repos),
                  growth_trend |-> GrowthTrendScore(account_age_months, n_repos) ]
           final == FinalScore(s)
       IN  IF IsFault(final)
           THEN /\ activity_response' = [ status |-> 500, error |-> "Activity scoring failed" ]
                /\ UNCHANGED << sub_scores, final_score >>
           ELSE /\ sub_scores' = s
                /\ final_score' = final
                /\ activity_response' =
                      [ status |-> 200,
                        activity_score |-> Round(final, 0),
                        breakdown |-> [ k \in DOMAIN s |-> Round(s[k], 0) ],
                        details |-> [ total_repos |-> n_repos,
                                      active_repos |-> active_repos,
                                      recent_commits |-> total_commits,
                                      account_age_months |-> Round(account_age_months, 1) ] ]
    /\ apc' = "done"
    /\ UNCHANGED << activity_input, account_age_months, total_commits, recent_activity_count,
                    active_repos >>
    /\ UNCHANGED not_avars

ActivityNext == ActivityFetch \/ ActivityAnalyseRepos \/ ActivityEvents \/ ActivityScore

-----------------------------------------------------------------------------
(* Requests to match_single_candidate whose counts may be negative.        *)

\* stars and readme_length as the JSON body gives them: any integer
SignedCounts == { [ stars |-> s, readme_length |-> l ] :
                    s \in { -5, 0, 12 }, l \in { -300, 0, 1500 } }

SignedRepos(i) ==
    { [ name |-> RepoNames[i], detected_skills |-> << S_Go, S_SQL, S_React >>,
        description |-> T_full, readme_content |-> T_long,
        stars |-> c.stars, readme_length |-> c.readme_length ] : c \in SignedCounts }

RECURSIVE SignedRepoListsOfLen(_)
SignedRepoListsOfLen(n) ==
    IF n = 0 THEN { << >> }
    ELSE { Append(l, r) : l \in SignedRepoListsOfLen(n - 1), r \in SignedRepos(n) }

SignedRequests ==
    { [ job_description |-> T_none, required_skills |-> rq, nice_to_have |-> nh,
        candidate_data |-> [ keys |-> ks, top_repos |-> l ] ] :
        rq \in { << >>, << S_Go, K_sql >> }, nh \in { << >>, << K_react >> },
        ks \in { { }, { "username", "top_repos" } },
        l \in UNION { SignedRepoListsOfLen(n) : n \in 0 .. MaxRepos } }

MatchInitSigned ==
    /\ request \in SignedRequests
    /\ mpc = "start"
    /\ required_skills = << >>
    /\ nice_to_have = << >>
    /\ all_job_skills = { }
    /\ top_repos = << >>
    /\ repo_matches = << >>
    /\ weighted_scores = << >>
    /\ total_weight = Num(0)
    /\ total_match_percentage = Num(0)
    /\ response = NoResponse

-----------------------------------------------------------------------------
(* match_single_candidate_ai: app.py 876-1016.                             *)

\* Bound: the largest number of repositories in an AI matching request.
MaxAiRepos == 2

\* ' '.join(l)
RECURSIVE JoinSpace(_)
JoinSpace(l) ==
    IF l = << >> THEN << >>
    ELSE IF Len(l) = 1 THEN Head(l)
    ELSE Head(l) \o << " " >> \o JoinSpace(Tail(l))

\* What one call of the AI source gives once line 958 (or 1001) has applied
\* int() to it: an integer, which nothing keeps within 0..100, or an exception
\* (the call fails, the text is no JSON, the value is no number).
AiIntegers == { -5, 0, 40, 100, 150 }

AiOutcomes ==
    { [ kind |-> "int", value |-> v ] : v \in AiIntegers } \cup { [ kind |-> "raise" ] }

AiRequiredLists == { << >>, << S_Go >>, << S_Go, K_sql, K_react, K_k8s >> }

AiRepos(i) ==
    { [ name |-> RepoNames[i], description |-> d, detected_skills |-> sk ] :
        d \in { T_none, T_api },
        sk \in { << >>, << S_Go >>, << S_Go, S_SQL, S_React, K_k8s >> } }

RECURSIVE AiRepoListsOfLen(_)
AiRepoListsOfLen(n) ==
    IF n = 0 THEN { << >> }
    ELSE { Append(l, r) : l \in AiRepoListsOfLen(n - 1), r \in AiRepos(n) }

AiRequests ==
    { [ has_candidate_data |-> c, job_description |-> jd, required_skills |-> req,
        top_repos |-> l ] :
        c \in BOOLEAN, jd \in JobDescriptions, req \in AiRequiredLists,
        l \in UNION { AiRepoListsOfLen(n) : n \in 0 .. MaxAiRepos } }

\* Lines 965-969: the score given to a repository when the AI call failed.
FallbackMatch(repo, required) ==
    LET repo_skills_text ==
            Lower(JoinSpace(repo.detected_skills \o << repo.description, repo.name >>))
        required_matches ==
            Cardinality({ i \in DOMAIN required : Contains(Lower(required[i]), repo_skills_text) })
    IN  IF required_matches > 0 THEN MinInt(required_matches * 25, 75) ELSE 0

RECURSIVE SumPercentages(_)
SumPercentages(l) ==
    IF l = << >> THEN 0 ELSE Head(l).match_percentage + SumPercentages(Tail(l))

\* Line 1004: round(sum(...) / len(repo_matches)), an int
FallbackTotal(matches) ==
    IF matches = << >> THEN 0
    ELSE Round(Rat(SumPercentages(matches), Len(matches)), 0)[1]

\* repo_matches.sort(key=match_percentage, reverse=True): stable
RECURSIVE AiInsertDesc(_, _)
AiInsertDesc(sorted, x) ==
    IF sorted = << >> THEN << x >>
    ELSE IF Head(sorted).match_percentage >= x.match_percentage
    THEN << Head(sorted) >> \o AiInsertDesc(Tail(sorted), x)
    ELSE << x >> \o sorted

RECURSIVE AiSortDesc(_)
AiSortDesc(l) ==
    IF l = << >> THEN << >>
    ELSE AiInsertDesc(AiSortDesc(SubSeq(l, 1, Len(l) - 1)), l[Len(l)])

AiInit ==
    /\ ai_request \in AiRequests
    /\ gpc = "start"
    /\ ai_next = 1
    /\ ai_answers = << >>
    /\ ai_repo_matches = << >>
    /\ ai_total = 0
    /\ ai_response = NoResponse

AiIdle ==
    /\ ai_request = [ none |-> TRUE ]
    /\ gpc = "idle"
    /\ ai_next = 0
    /\ ai_answers = << >>
    /\ ai_repo_matches = << >>
    /\ ai_total = 0
    /\ ai_response = NoResponse

\* Lines 882-905: the checks of the request and the empty repository list.
AiParse ==
    /\ gpc = "start"
    /\ IF ~ai_request.has_candidate_data
       THEN /\ gpc' = "done"
            /\ ai_response' = [ status |-> 400, error |-> "No candidate data provided" ]
       ELSE IF ai_request.job_description = << >>
       THEN /\ gpc' = "done"
            /\ ai_response' = [ status |-> 400, error |-> "Job description is required" ]
       ELSE IF ai_request.top_repos = << >>
       THEN /\ gpc' = "done"
            /\ ai_response' = [ status |-> 200, total_match_percentage |-> 0,
                                repo_matches |-> << >> ]
       ELSE /\ gpc' = "loop"
            /\ UNCHANGED ai_response
    /\ UNCHANGED << ai_request, ai_next, ai_answers, ai_repo_matches, ai_total >>
    /\ UNCHANGED not_gvars

\* Lines 907-974: one turn of the loop over top_repos.
AiRepo ==
    /\ gpc = "loop"
    /\ ai_next <= Len(ai_request.top_repos)
    /\ \E answer \in AiOutcomes :
         LET repo == ai_request.top_repos[ai_next]
             percentage == IF answer.kind = "int" THEN answer.value
                           ELSE FallbackMatch(repo, ai_request.required_skills)
         IN  /\ ai_repo_matches' = Append(ai_repo_matches,
                    [ repo_name |-> repo.name, match_percentage |-> percentage ])
             /\ ai_answers' = Append(ai_answers, answer)
    /\ ai_next' = ai_next + 1
    /\ UNCHANGED << ai_request, gpc, ai_total, ai_response >>
    /\ UNCHANGED not_gvars

\* Lines 976-1004: the overall percentage, from the AI source or the mean.
AiOverall ==
    /\ gpc = "loop"
    /\ ai_next > Len(ai_request.top_repos)
    /\ \E answer \in AiOutcomes :
         /\ ai_total' = IF answer.kind = "int" THEN answer.value
                        ELSE FallbackTotal(ai_repo_matches)
         /\ ai_answers' = Append(ai_answers, answer)
    /\ gpc' = "respond"
    /\ UNCHANGED << ai_request, ai_next, ai_repo_matches, ai_response >>
    /\ UNCHANGED not_gvars

\* Lines 1006-1012: the sort and the answer.
AiRespond ==
    /\ gpc = "respond"
    /\ ai_repo_matches' = AiSortDesc(ai_repo_matches)
    /\ ai_response' = [ status |-> 200, total_match_percentage |-> ai_total,
                        repo_matches |-> ai_repo_matches' ]
    /\ gpc' = "done"
    /\ UNCHANGED << ai_request, ai_next, ai_answers, ai_total >>
    /\ UNCHANGED not_gvars

AiNext == AiParse \/ AiRepo \/ AiOverall \/ AiRespond

-----------------------------------------------------------------------------
(* A call of detect_comment_lines: analyzer.py 333-350.                    *)

\* Bound: the largest number of lines given to detect_comment_lines.
MaxCommentLines == 3

CommentLineBodies ==
    { << "/", "*", " ", "a", "\n" >>,
      << "/", "/", " ", "b", " ", "*", "/", "\n" >>,
      << "x", " ", "=", " ", "1", "\n" >>,
      << "c", " ", "*", "/", "\n" >>,
      << " ", " ", "/", "/", " ", "d", "\n" >>,
      << "#", " ", "e", "\n" >>,
      << "<", "!", "-", "-", " ", "f", "\n" >>,
      << "g", " ", "-", "-", ">", "\n" >> }

RECURSIVE CommentLinesOfLen(_)
CommentLinesOfLen(n) ==
    IF n = 0 THEN { << >> }
    ELSE { Append(l, b) : l \in CommentLinesOfLen(n - 1), b \in CommentLineBodies }

\* "md" stands for an extension that COMMENT_SYNTAX does not hold.
CommentInputs ==
    { [ lines |-> l, ext |-> e ] :
        l \in UNION { CommentLinesOfLen(n) : n \in 0 .. MaxCommentLines },
        e \in { "py", "js", "html", "md" } }

CommentsInit ==
    /\ comment_input \in CommentInputs
    /\ cpc = "start"
    /\ comment_count = 0

CommentsIdle ==
    /\ comment_input = [ lines |-> << >>, ext |-> "" ]
    /\ cpc = "idle"
    /\ comment_count = 0

DetectCommentLines ==
    /\ cpc = "start"
    /\ comment_count' = detect_comment_lines(comment_input.lines, comment_input.ext)
    /\ cpc' = "done"
    /\ UNCHANGED comment_input
    /\ UNCHANGED not_cvars

CommentsNext == DetectCommentLines

-----------------------------------------------------------------------------
(* analyze_user_repos (analyzer.py 279-305) and get_code_proficiency       *)
(* (app.py 1540-1614): the loop over a user's repositories.                *)

\* Line 1579 of app.py: count >= 15 ends the loop of get_code_proficiency.
PROFICIENCY_LIMIT == 15

\* Bound: the longest list of repositories enumerated in full.
MaxProfRepos == 3

\* What analyze_repo_githired gives for a repository: the fallback result, a
\* blend, or an exception.
AnalysisOutcomes ==
    { [ kind |-> "return", overall_score |-> Num(15),
        note |-> "No supported files found. Structure bonus only." ],
      [ kind |-> "return", overall_score |-> Rat(5751, 100), file_count |-> 4 ],
      [ kind |-> "return", overall_score |-> Rat(9265, 100), file_count |-> 3 ],
      [ kind |-> "raise", error |-> "GitCommandError" ],
      [ kind |-> "raise", error |-> "ValueError" ] }

GoodAnalysis == [ kind |-> "return", overall_score |-> Rat(9265, 100), file_count |-> 3 ]

ProfRepoKinds ==
    { [ fork |-> FALSE, analysis |-> o ] : o \in AnalysisOutcomes }
    \cup { [ fork |-> TRUE, analysis |-> GoodAnalysis ] }

RECURSIVE ProfReposOfLen(_)
ProfReposOfLen(n) ==
    IF n = 0 THEN { << >> }
    ELSE { Append(l, r) : l \in ProfReposOfLen(n - 1), r \in ProfRepoKinds }

\* Every list of at most MaxProfRepos repositories, and the lists long enough
\* for the limit of get_code_proficiency to be met.
ProfRepoLists ==
    UNION { ProfReposOfLen(n) : n \in 0 .. MaxProfRepos }
    \cup { << a >> \o [ i \in 1 .. k |-> [ fork |-> FALSE, analysis |-> GoodAnalysis ] ]
                  \o << b >> :
             a \in ProfRepoKinds, b \in ProfRepoKinds,
             k \in { PROFICIENCY_LIMIT - 1, PROFICIENCY_LIMIT } }

ProfInputs ==
    { [ function |-> f, repos |-> l ] :
        f \in { "analyze_user_repos", "get_code_proficiency" }, l \in ProfRepoLists }

\* score.get(key, 0)
GetOrZero(score, key) == IF key \in DOMAIN score THEN score[key] ELSE 0

\* get_proficiency_level: app.py 1587-1597
get_proficiency_level(score) ==
    IF RLe(Num(85), score) THEN "Expert"
    ELSE IF RLe(Num(70), score) THEN "Advanced"
    ELSE IF RLe(Num(55), score) THEN "Intermediate"
    ELSE IF RLe(Num(40), score) THEN "Beginner"
    ELSE "Novice"

\* round(mean(repo_scores), 2) if repo_scores else 0
AverageScore(scores) == IF scores # << >> THEN Round(Mean(scores), 2) ELSE Num(0)

\* max(detailed_results, key=score): the first of the largest
HighestScoring(details) ==
    IF details = << >> THEN [ none |-> TRUE ]
    ELSE details[CHOOSE i \in DOMAIN details :
                    /\ \A j \in DOMAIN details : RLe(details[j].score, details[i].score)
                    /\ \A j \in 1 .. i - 1 : RLt(details[j].score, details[i].score)]

\* min(detailed_results, key=score): the first of the smallest
LowestScoring(details) ==
    IF details = << >> THEN [ none |-> TRUE ]
    ELSE details[CHOOSE i \in DOMAIN details :
                    /\ \A j \in DOMAIN details : RLe(details[i].score, details[j].score)
                    /\ \A j \in 1 .. i - 1 : RLt(details[i].score, details[j].score)]

ProfInit ==
    /\ prof_input \in ProfInputs
    /\ ppc = "loop"
    /\ prof_next = 0
    /\ prof_analysed = { }
    /\ prof_scores = << >>
    /\ prof_details = << >>
    /\ prof_count = 0
    /\ prof_response = NoResponse

ProfIdle ==
    /\ prof_input = [ function |-> "", repos |-> << >> ]
    /\ ppc = "idle"
    /\ prof_next = 0
    /\ prof_analysed = { }
    /\ prof_scores = << >>
    /\ prof_details = << >>
    /\ prof_count = 0
    /\ prof_response = NoResponse

\* if repo.fork: continue
ProfSkipFork ==
    /\ ppc = "loop"
    /\ prof_next < Len(prof_input.repos)
    /\ prof_input.repos[prof_next + 1].fork
    /\ prof_next' = prof_next + 1
    /\ UNCHANGED << prof_input, ppc, prof_analysed, prof_scores, prof_details, prof_count,
                    prof_response >>
    /\ UNCHANGED not_pvars

\* Mutant: an exception of analyze_repo_githired ends the loop.
ProfAnalyse_StopsOnFailure ==
    /\ ppc = "loop"
    /\ prof_next < Len(prof_input.repos)
    /\ ~prof_input.repos[prof_next + 1].fork
    /\ LET score == prof_input.repos[prof_next + 1].analysis
       IN  /\ prof_analysed' = prof_analysed \cup { prof_next + 1 }
           /\ prof_next' = prof_next + 1
           /\ IF score.kind = "raise"
              THEN /\ ppc' = "summary"
                   /\ UNCHANGED << prof_scores, prof_details, prof_count >>
              ELSE /\ prof_scores' = Append(prof_scores, score.overall_score)
                   /\ prof_details' = Append(prof_details,
                          [ repo |-> prof_next + 1, score |-> Round(score.overall_score, 2),
                            file_count |-> GetOrZero(score, "file_count") ])
                   /\ IF prof_input.function = "get_code_proficiency"
                      THEN /\ prof_count' = prof_count + 1
                           /\ ppc' = IF prof_count' >= PROFICIENCY_LIMIT THEN "summary"
                                     ELSE "loop"
                      ELSE UNCHANGED << prof_count, ppc >>
    /\ UNCHANGED << prof_input, prof_response >>
    /\ UNCHANGED not_pvars

\* One turn of the loop on a repository that is no fork: analyzer.py 290-299,
\* app.py 1563-1583.
ProfAnalyse ==
    /\ ppc = "loop"
    /\ prof_next < Len(prof_input.repos)
    /\ ~prof_input.repos[prof_next + 1].fork
    /\ LET score == prof_input.repos[prof_next + 1].analysis
       IN  /\ prof_analysed' = prof_analysed \cup { prof_next + 1 }
           /\ prof_next' = prof_next + 1
           /\ IF score.kind = "raise"
              THEN \* except Exception: the failure is printed, the loop goes on
                   UNCHANGED << prof_scores, prof_details, prof_count, ppc >>
              ELSE /\ prof_scores' = Append(prof_scores, score.overall_score)
                   /\ prof_details' = Append(prof_details,
                          [ repo |-> prof_next + 1, score |-> Round(score.overall_score, 2),
                            file_count |-> GetOrZero(score, "file_count") ])
                   /\ IF prof_input.function = "get_code_proficiency"
                      THEN /\ prof_count' = prof_count + 1
                           /\ ppc' = IF prof_count' >= PROFICIENCY_LIMIT THEN "summary"
                                     ELSE "loop"
                      ELSE UNCHANGED << prof_count, ppc >>
    /\ UNCHANGED << prof_input, prof_response >>
    /\ UNCHANGED not_pvars

\* analyzer.py 301-305 and app.py 1585-1609: the result.
ProfRespond ==
    /\ ppc = "summary" \/ (ppc = "loop" /\ prof_next = Len(prof_input.repos))
    /\ ppc' = "done"
    /\ prof_response' =
          IF prof_input.function = "analyze_user_repos"
          THEN [ status |-> 200,
                 average_score |-> AverageScore(prof_scores),
                 repo_scores |-> [ i \in DOMAIN prof_details |->
                                      [ repo |-> prof_details[i].repo,
                                        score |-> prof_details[i].score ] ] ]
          ELSE [ status |-> 200,
                 average_score |-> AverageScore(prof_scores),
                 proficiency_level |-> get_proficiency_level(AverageScore(prof_scores)),
                 total_repos_analyzed |-> prof_count,
                 repo_scores |-> prof_details,
                 highest_scoring_repo |-> HighestScoring(prof_details),
                 lowest_scoring_repo |-> LowestScoring(prof_details),
                 avg_file_count |->
                     IF prof_details # << >>
                     THEN Round(Mean([ i \in DOMAIN prof_details |->
                                          Num(prof_details[i].file_count) ]), 1)
                     ELSE Num(0) ]
    /\ UNCHANGED << prof_input, prof_next, prof_analysed, prof_scores, prof_details,
                    prof_count >>
    /\ UNCHANGED not_pvars

ProfNext == ProfSkipFork \/ ProfAnalyse \/ ProfRespond

-----------------------------------------------------------------------------
(* Specifications: one per component, the other components idle.           *)

InitMatch ==
    MatchInit /\ FileIdle /\ RepoIdle /\ UserIdle /\ LizardIdle /\ ActivityIdle /\ SkillsIdle
        /\ AiIdle
        /\ CommentsIdle
        /\ ProfIdle
SpecMatch == InitMatch /\ [][MatchNext]_vars

InitFile ==
    FileInit /\ MatchIdle /\ RepoIdle /\ UserIdle /\ LizardIdle /\ ActivityIdle /\ SkillsIdle
        /\ AiIdle
        /\ CommentsIdle
        /\ ProfIdle
SpecFile == InitFile /\ [][FileNext]_vars

InitRepo ==
    RepoInit /\ MatchIdle /\ FileIdle /\ UserIdle /\ LizardIdle /\ ActivityIdle /\ SkillsIdle
        /\ AiIdle
        /\ CommentsIdle
        /\ ProfIdle
SpecRepo == InitRepo /\ [][RepoNext]_vars

InitUser ==
    UserInit /\ MatchIdle /\ FileIdle /\ RepoIdle /\ LizardIdle /\ ActivityIdle /\ SkillsIdle
        /\ AiIdle
        /\ CommentsIdle
        /\ ProfIdle
SpecUser == InitUser /\ [][UserNext]_vars

InitLizard ==
    LizardInit /\ MatchIdle /\ FileIdle /\ RepoIdle /\ UserIdle /\ ActivityIdle /\ SkillsIdle
        /\ AiIdle
        /\ CommentsIdle
        /\ ProfIdle
SpecLizard == InitLizard /\ [][LizardNext]_vars

InitActivity ==
    ActivityInit /\ MatchIdle /\ FileIdle /\ RepoIdle /\ UserIdle /\ LizardIdle /\ SkillsIdle
        /\ AiIdle
        /\ CommentsIdle
        /\ ProfIdle
SpecActivity == InitActivity /\ [][ActivityNext]_vars

InitSkills ==
    SkillsInit /\ MatchIdle /\ FileIdle /\ RepoIdle /\ UserIdle /\ LizardIdle /\ ActivityIdle
        /\ AiIdle
        /\ CommentsIdle
        /\ ProfIdle
SpecSkills == InitSkills /\ [][SkillsNext]_vars

InitMatchSigned ==
    MatchInitSigned /\ FileIdle /\ RepoIdle /\ UserIdle /\ LizardIdle /\ ActivityIdle
        /\ SkillsIdle
        /\ AiIdle
        /\ CommentsIdle
        /\ ProfIdle
SpecMatchSigned == InitMatchSigned /\ [][MatchNext]_vars

InitAi ==
    AiInit /\ MatchIdle /\ FileIdle /\ RepoIdle /\ UserIdle /\ LizardIdle /\ ActivityIdle
        /\ SkillsIdle
        /\ CommentsIdle
        /\ ProfIdle
SpecAi == InitAi /\ [][AiNext]_vars

InitComments ==
    CommentsInit /\ MatchIdle /\ FileIdle /\ RepoIdle /\ UserIdle /\ LizardIdle
        /\ ActivityIdle /\ SkillsIdle /\ AiIdle
        /\ ProfIdle
SpecComments == InitComments /\ [][CommentsNext]_vars

InitProf ==
    ProfInit /\ MatchIdle /\ FileIdle /\ RepoIdle /\ UserIdle /\ LizardIdle
        /\ ActivityIdle /\ SkillsIdle /\ AiIdle /\ CommentsIdle
SpecProf == InitProf /\ [][ProfNext]_vars

-----------------------------------------------------------------------------
(* Properties of match_single_candidate.                                   *)

MatchRunning == mpc \in { "loop", "done" }
MatchAnswered == mpc = "done" /\ response.status = 200 /\ top_repos # << >>

NonNegative(repo) == repo.stars >= 0 /\ repo.readme_length >= 0

NoDuplicates(l) == Cardinality(Range(l)) = Len(l)

\* The percentage the loop computes for top_repos[i].
Percentage(i) ==
    RepoMatchPercentage(top_repos[i], required_skills, nice_to_have, all_job_skills)

\* The entry of the response for the repository called name.
EntryOf(name) ==
    CHOOSE e \in Range(response.repo_matches) : e.repo_name = name

\* Every required skill, every nice-to-have skill and every job skill is found,
\* and the README and star bonuses are at their caps.
AllMaximal(repo) ==
    /\ Range(required_skills) \subseteq Range(LowerAll(repo.detected_skills))
    /\ Range(nice_to_have) \subseteq Range(LowerAll(repo.detected_skills))
    /\ \A skill \in all_job_skills : Contains(skill, AllText(repo))
    /\ repo.readme_length >= 1000
    /\ repo.stars >= 10

PercentagesBounded ==
    /\ \A i \in DOMAIN top_repos :
          NonNegative(top_repos[i]) => InRange(Percentage(i), 0, 100)
    /\ \A i \in DOMAIN repo_matches : InRange(repo_matches[i].match_percentage, 0, 100)

\* C1 as stated: every per-repository match percentage is in [0,100], and it is
\* exactly 100 when all required skills match, all nice-to-have skills match,
\* every job skill occurs in the repository text, readme_length >= 1000 and
\* stars >= 10.
C1_AsStated ==
    MatchRunning =>
        /\ PercentagesBounded
        /\ \A i \in DOMAIN top_repos :
              (NonNegative(top_repos[i]) /\ AllMaximal(top_repos[i]))
                  => Percentage(i) = Num(100)

\* C1, amended: every per-repository match percentage is in [0,100]; it is
\* exactly 100, before and after rounding, when the required and nice-to-have
\* lists are non-empty and free of duplicates and all their skills match, every
\* job skill occurs in the repository text, readme_length >= 1000 and stars >= 10.
C1_PercentageBounded ==
    MatchRunning =>
        /\ PercentagesBounded
        /\ \A i \in DOMAIN top_repos :
              ( /\ NonNegative(top_repos[i])
                /\ AllMaximal(top_repos[i])
                /\ required_skills # << >> /\ NoDuplicates(required_skills)
                /\ nice_to_have # << >> /\ NoDuplicates(nice_to_have) )
                  => /\ Percentage(i) = Num(100)
                     /\ i \in DOMAIN repo_matches /\ mpc = "loop"
                            => repo_matches[i].match_percentage = Num(100)
                     /\ MatchAnswered
                            => EntryOf(top_repos[i].name).match_percentage = Num(100)

C1_Witness ==
    /\ MatchAnswered
    /\ required_skills # << >> /\ NoDuplicates(required_skills)
    /\ nice_to_have # << >> /\ NoDuplicates(nice_to_have)
    /\ \E i \in DOMAIN top_repos :
          /\ AllMaximal(top_repos[i])
          /\ EntryOf(top_repos[i].name).match_percentage = Num(100)
    /\ \E e \in Range(response.repo_matches) :
          RLt(Num(0), e.match_percentage) /\ RLt(e.match_percentage, Num(100))

\* max(stars, 1) * max(readme_length / 100, 1), written out from the claim.
ClaimedWeight(repo) ==
    RMul(Num(IF repo.stars >= 1 THEN repo.stars ELSE 1),
         IF repo.readme_length >= 100 THEN Rat(repo.readme_length, 100) ELSE Num(1))

ClaimedAverage ==
    RDiv(RSum([ i \in DOMAIN top_repos |-> RMul(Percentage(i), ClaimedWeight(top_repos[i])) ]),
         RSum([ i \in DOMAIN top_repos |-> ClaimedWeight(top_repos[i]) ]))

C3_WeightAtLeastOne ==
    MatchRunning =>
        /\ RLe(Num(Len(weighted_scores)), total_weight)
        /\ Len(weighted_scores) = Len(repo_matches)
        /\ (mpc = "done" /\ top_repos # << >>) =>
              /\ response.status = 200
              /\ RLt(Num(0), total_weight)
              /\ total_match_percentage = RDiv(RSum(weighted_scores), total_weight)
        /\ ( /\ mpc = "done"
             /\ Len(top_repos) = 1
             /\ top_repos[1].stars = 0
             /\ top_repos[1].readme_length = 0 ) =>
              /\ total_weight = Num(1)
              /\ total_match_percentage = Percentage(1)
              /\ response.total_match_percentage
                    = response.repo_matches[1].match_percentage

C3_Witness ==
    /\ MatchAnswered
    /\ Len(top_repos) = 1
    /\ top_repos[1].stars = 0
    /\ top_repos[1].readme_length = 0
    /\ Range(required_skills) \subseteq Range(LowerAll(top_repos[1].detected_skills))
    /\ total_weight = Num(1)
    /\ response.total_match_percentage = Num(70)

EmptyRepositoryList ==
    /\ request.candidate_data.keys # { }
    /\ ("top_repos" \in request.candidate_data.keys
            => request.candidate_data.top_repos = << >>)

\* C4: called with candidate data whose repository list is empty, the handler
\* answers total_match_percentage 0 and an empty repo_matches list, whatever the
\* required and nice-to-have skills, and not an error.
C4_EmptyRepositoryList ==
    (mpc = "done" /\ EmptyRepositoryList) =>
        response = [ status |-> 200, total_match_percentage |-> Num(0),
                     repo_matches |-> << >> ]

C4_Witness ==
    /\ mpc = "done"
    /\ EmptyRepositoryList
    /\ "top_repos" \in request.candidate_data.keys
    /\ required_skills # << >>
    /\ response.status = 200

\* C5: with an empty required (nice-to-have) list the required (nice-to-have)
\* component of every repository's percentage is 0 and nothing divides by zero;
\* every overlap ratio is in [0,1].
C5_EmptyRequirementSet ==
    MatchRunning =>
        /\ response.status # 500
        /\ \A i \in DOMAIN top_repos :
              LET repo_skills_lower == LowerAll(top_repos[i].detected_skills)
              IN  /\ InRange(OverlapRatio(required_skills, repo_skills_lower), 0, 1)
                  /\ InRange(OverlapRatio(nice_to_have, repo_skills_lower), 0, 1)
                  /\ required_skills = << >>
                        => RequiredScore(required_skills, repo_skills_lower) = Num(0)
                  /\ nice_to_have = << >>
                        => NiceToHaveScore(nice_to_have, repo_skills_lower) = Num(0)
                  /\ (required_skills = << >> /\ nice_to_have = << >>)
                        => RLe(Percentage(i), Num(15))

C5_Witness ==
    /\ MatchAnswered
    /\ required_skills = << >>
    /\ nice_to_have # << >>
    /\ \E i \in DOMAIN top_repos : top_repos[i].detected_skills # << >>
    /\ \E e \in Range(response.repo_matches) : RLt(Num(0), e.match_percentage)

\* C6: the repo_matches list returned holds exactly one entry per input
\* repository and is ordered by non-increasing match_percentage.
C6_SortedMatches ==
    MatchAnswered =>
        /\ Len(response.repo_matches) = Len(top_repos)
        /\ \A i \in DOMAIN top_repos :
              Cardinality({ j \in DOMAIN response.repo_matches :
                              response.repo_matches[j].repo_name = top_repos[i].name }) = 1
        /\ \A i \in DOMAIN top_repos :
              EntryOf(top_repos[i].name).match_percentage = Round(Percentage(i), 0)
        /\ \A j \in 1 .. (Len(response.repo_matches) - 1) :
              RLe(response.repo_matches[j + 1].match_percentage,
                  response.repo_matches[j].match_percentage)

C6_Witness ==
    /\ MatchAnswered
    /\ Len(top_repos) >= 2
    /\ response.repo_matches[1].repo_name = top_repos[2].name
    /\ RLt(response.repo_matches[2].match_percentage,
           response.repo_matches[1].match_percentage)

-----------------------------------------------------------------------------
(* Properties of the file scorers.                                         *)

Scored == fpc \in { "code", "html", "css" }

\* C7: for every readable file content, score_code_readability,
\* score_html_quality and score_css_quality each return a score in [0,100].
C7_FileScoreBounded ==
    (Scored /\ file.decodable) =>
        /\ "score" \in DOMAIN file_result
        /\ InRange(file_result.score, 0, 100)

C7_Witness ==
    /\ fpc = "html"
    /\ file.decodable
    /\ file.counts.semantic_count > 5
    /\ file_result.score = Num(100)

\* C8: score_code_readability on a readable file with zero lines returns a
\* result whose score is exactly 0: not an error result, and nothing is divided
\* by the line count.
C8_EmptyFileScoresZero ==
    (fpc = "code" /\ file.decodable /\ ReadLines(file.content) = << >>) =>
        file_result = [ score |-> Num(0) ]

C8_Witness ==
    /\ fpc = "code"
    /\ file.decodable
    /\ file.content = << >>
    /\ file_result.score = Num(0)

-----------------------------------------------------------------------------
(* Properties of analyze_repo_githired.                                    *)

\* The call has blended the evidence it found (lines 230-274).
Blended ==
    /\ rpc \in { "finally", "done" }
    /\ outcome.kind = "return"
    /\ "weights_used" \in DOMAIN outcome

\* The weights w give nothing to a kind without evidence, at most 0.85 to the
\* kinds with evidence, and 0.15 to the structure.
WeightsFit(w, has_code, has_html, has_css) ==
    /\ ~has_code => w.lizard = Num(0)
    /\ ~has_html => w.html = Num(0)
    /\ ~has_css => w.css = Num(0)
    /\ RLe(RAdd(RAdd(IF has_code THEN w.lizard ELSE Num(0),
                     IF has_html THEN w.html ELSE Num(0)),
                IF has_css THEN w.css ELSE Num(0)), Rat(85, 100))
    /\ \A k \in { "lizard", "html", "css" } : RLe(Num(0), w[k])
    /\ w.structure = Rat(15, 100)

\* C9: for each combination of (has_code, has_html, has_css) with at least one
\* true, the weight of every evidence kind that has no scores is 0, the weights
\* of the present kinds sum to at most 0.85, and the structure weight is 0.15:
\* of the weights a call used, and of the selection for all seven combinations.
C9_WeightsOfAbsentKinds ==
    /\ Blended =>
          /\ outcome.weights_used = weights
          /\ lizard_scores # << >> \/ html_scores # << >> \/ css_scores # << >>
          /\ WeightsFit(weights, lizard_scores # << >>, html_scores # << >>,
                        css_scores # << >>)
    /\ \A c \in BOOLEAN, h \in BOOLEAN, k \in BOOLEAN :
          (c \/ h \/ k) => WeightsFit(WeightsFor(c, h, k), c, h, k)

C9_Witness ==
    /\ Blended
    /\ lizard_scores # << >>
    /\ html_scores = << >>
    /\ css_scores # << >>
    /\ weights.lizard = Rat(5, 10)
    /\ weights.css = Rat(35, 100)
    /\ weights.html = Num(0)

\* The average of a kind, 0 for a kind without scores.
KindAverage(scores) ==
    IF scores = << >> THEN Num(0) ELSE RDiv(RSum(scores), Num(Len(scores)))

\* sum over kinds of (kind average * kind weight) + min(15, (file_count+folder_count)/10)
ClaimedBlend ==
    RAdd(RAdd(RAdd(RMul(KindAverage(lizard_scores), weights.lizard),
                   RMul(KindAverage(html_scores), weights.html)),
              RMul(KindAverage(css_scores), weights.css)),
         IF file_count + folder_count >= 150 THEN Num(15)
         ELSE Rat(file_count + folder_count, 10))

AllScoresBounded ==
    \A l \in { lizard_scores, html_scores, css_scores } :
        \A i \in DOMAIN l : InRange(l[i], 0, 100)

\* C10 as stated: with some evidence present, overall_score equals the sum over
\* kinds of (kind average * kind weight) plus min(15, (file_count+folder_count)/10),
\* and is in [0,100].
C10_AsStated ==
    (Blended /\ AllScoresBounded) =>
        /\ outcome.overall_score = ClaimedBlend
        /\ InRange(outcome.overall_score, 0, 100)

\* C10, amended: with some evidence present, overall_score equals that sum
\* rounded to two decimals, and is in [0,100] for per-file scores in [0,100]
\* and non-negative counts.
C10_OverallScore ==
    /\ AllScoresBounded
    /\ file_count >= 0 /\ folder_count >= 0
    /\ Blended =>
          /\ outcome.overall_score = Round(ClaimedBlend, 2)
          /\ InRange(outcome.overall_score, 0, 100)
          /\ InRange(ClaimedBlend, 0, 100)

C10_Witness ==
    /\ Blended
    /\ lizard_scores # << >> /\ html_scores # << >> /\ css_scores # << >>
    /\ file_count + folder_count > 150
    /\ outcome.overall_score # ClaimedBlend
    /\ outcome.overall_score = Round(ClaimedBlend, 2)

\* The call has returned a result (fallback or blend).
Returned == rpc \in { "finally", "done" } /\ outcome.kind = "return"

NoEvidence == lizard_scores = << >> /\ html_scores = << >> /\ css_scores = << >>

\* C11: when a repository yields no code, markup or stylesheet scores,
\* analyze_repo_githired returns overall_score exactly 15.0 whatever file_count
\* and folder_count are, and no average is computed (no average is part of the
\* result and no fault of a division ends the call).
C11_FallbackScore ==
    /\ (Returned /\ NoEvidence) =>
          /\ outcome.overall_score = Num(15)
          /\ DOMAIN outcome = { "kind", "overall_score", "note" }
    /\ (rpc \in { "finally", "done" } /\ NoEvidence /\ outcome.kind # "return") =>
          \* the clone or float() of a lizard report raised, no division did
          outcome \in { [ kind |-> "raise", error |-> "GitCommandError" ],
                        [ kind |-> "raise", error |-> "ValueError" ] }

C11_Witness ==
    /\ Returned
    /\ NoEvidence
    /\ file_count > 0
    /\ StructureBonus(file_count, folder_count) # Num(15)
    /\ outcome.overall_score = Num(15)

\* C12 as stated: every result returned by analyze_repo_githired, blend and
\* fallback alike, carries the weights that were used.
C12_AsStated == Returned => "weights_used" \in DOMAIN outcome

\* The fallback result is reached and has no weights.
C12_FallbackWithoutWeights ==
    Returned /\ NoEvidence /\ "weights_used" \notin DOMAIN outcome

\* The scores of the decodable files with extension ext of the first n folders,
\* in the order of the walk.
RECURSIVE ValidScoresUpTo(_, _)
ValidScoresUpTo(ext, n) ==
    IF n = 0 THEN << >>
    ELSE LET files == repo_input.tree[n].files
             valid == SelectSeq(files, LAMBDA f : f.ext = ext /\ f.decodable)
         IN  ValidScoresUpTo(ext, n - 1)
             \o [ i \in DOMAIN valid |->
                    IF ext = "html" THEN score_html_quality(valid[i]).score
                    ELSE score_css_quality(valid[i]).score ]

\* Some file with extension ext was met, and none of them could be decoded.
AllUndecodable(ext) ==
    /\ \E n \in DOMAIN repo_input.tree :
          \E i \in DOMAIN repo_input.tree[n].files : repo_input.tree[n].files[i].ext = ext
    /\ \A n \in DOMAIN repo_input.tree :
          \A i \in DOMAIN repo_input.tree[n].files :
              repo_input.tree[n].files[i].ext = ext => ~repo_input.tree[n].files[i].decodable

\* C13: an .html or .css file whose scorer returns a decode-error result is
\* left out of the average: the markup (stylesheet) average is the mean of the
\* valid scores only, and a kind whose files all failed to decode counts as
\* absent (no scores, weight 0) rather than as score 0.
C13_DecodeErrorsLeftOut ==
    Returned =>
        /\ html_scores = ValidScoresUpTo("html", Len(repo_input.tree))
        /\ css_scores = ValidScoresUpTo("css", Len(repo_input.tree))
        /\ Blended =>
              /\ outcome.avg_html_score = Round(KindAverage(ValidScoresUpTo("html", Len(repo_input.tree))), 2)
              /\ outcome.avg_css_score = Round(KindAverage(ValidScoresUpTo("css", Len(repo_input.tree))), 2)
              /\ AllUndecodable("html") => html_scores = << >> /\ outcome.weights_used.html = Num(0)
              /\ AllUndecodable("css") => css_scores = << >> /\ outcome.weights_used.css = Num(0)

C13_Witness ==
    /\ Blended
    /\ \E i \in DOMAIN repo_input.tree[1].files : repo_input.tree[1].files[i] = F_htmlBad
    /\ Len(html_scores) = 2
    /\ outcome.avg_html_score = Rat(9334, 100)
    /\ AllUndecodable("css")
    /\ outcome.weights_used.css = Num(0)

-----------------------------------------------------------------------------
(* Properties of analyze_user_code_quality.                                *)

UserReturned == upc = "done" /\ user_outcome.kind = "return"

\* The loop has taken repository n, cloned it, and sampled files of which some
\* but not all cannot be decoded (a clone with at most MAX_FILES_PER_REPO
\* source files has all of them sampled).
SampledWithUndecodable(n) ==
    /\ n \in 1 .. next_repo
    /\ ~user_repos[n].fork
    /\ user_repos[n].clone_ok
    /\ Len(user_repos[n].files) <= MAX_FILES_PER_REPO
    /\ \E i \in DOMAIN user_repos[n].files : ~user_repos[n].files[i].decodable
    /\ \E i \in DOMAIN user_repos[n].files : user_repos[n].files[i].decodable

\* The scores of the decodable files among files
DecodableScores(files) ==
    LET valid == SelectSeq(files, LAMBDA f : f.decodable)
    IN  [ i \in DOMAIN valid |-> score_code_readability(valid[i]).score ]

\* C14 as stated: when one sampled file of a repository cannot be decoded, the
\* file is excluded from the repository's average, the average is taken over
\* the remaining sampled files, and the repository still appears in repo_scores.
C14_AsStated ==
    UserReturned =>
        \A n \in DOMAIN user_repos :
            SampledWithUndecodable(n) =>
                \E i \in DOMAIN user_outcome.repo_scores :
                    /\ user_outcome.repo_scores[i].repo = n
                    /\ user_outcome.repo_scores[i].avg_quality_score
                          = Round(Mean(DecodableScores(user_repos[n].files)), 2)

\* A repository with an undecodable sampled file has no entry in repo_scores.
C14_RepositoryDropped ==
    /\ UserReturned
    /\ \E n \in DOMAIN user_repos :
          /\ SampledWithUndecodable(n)
          /\ \A i \in DOMAIN user_outcome.repo_scores : user_outcome.repo_scores[i].repo # n

-----------------------------------------------------------------------------
(* Properties of extract_avg_ccn_from_lizard_output.                       *)

\* text holds the average-complexity figure: the label, then whitespace or
\* nothing, then a digit or a dot.
HasFigure(text) ==
    \E i \in DOMAIN text :
        /\ i + Len(AvgCcnLabel) - 1 <= Len(text)
        /\ SubSeq(text, i, i + Len(AvgCcnLabel) - 1) = AvgCcnLabel
        /\ \E j \in (i + Len(AvgCcnLabel)) .. Len(text) :
              /\ text[j] \in DigitsAndDot
              /\ \A k \in (i + Len(AvgCcnLabel)) .. (j - 1) : text[k] \in Whitespace

\* The number written by the first figure of text (a fault when it is no number)
Complexity(text) ==
    LET first == CHOOSE i \in DOMAIN text :
                    /\ HasFigure(SubSeq(text, i, Len(text)))
                    /\ SubSeq(text, i, i + Len(AvgCcnLabel) - 1) = AvgCcnLabel
                    /\ \A j \in 1 .. (i - 1) :
                          ~(/\ HasFigure(SubSeq(text, j, Len(text)))
                            /\ SubSeq(text, j, j + Len(AvgCcnLabel) - 1) = AvgCcnLabel)
    IN  ParseFloat(DigitRun(text, SkipWhitespace(text, first + Len(AvgCcnLabel))))

\* clamp(100 - (c - 1) * 12.5, 0, 100)
ClampedScore(c) ==
    LET raw == RSub(Num(100), RMul(RSub(c, Num(1)), Rat(25, 2)))
    IN  IF RLt(raw, Num(0)) THEN Num(0) ELSE IF RLt(Num(100), raw) THEN Num(100) ELSE raw

Parses(text) == HasFigure(text) /\ ~IsFault(Complexity(text))

\* C15: for a report from which an average complexity c is parsed, the function
\* returns clamp(100 - (c - 1)*12.5, 0, 100): 100 for c = 1, 0 for every c >= 9,
\* and never more for a report with a larger c.
C15_ComplexityScore ==
    (lpc = "done" /\ Parses(report)) =>
        /\ ccn_score.kind = "return"
        /\ ccn_score.value = ClampedScore(Complexity(report))
        /\ Complexity(report) = Num(1) => ccn_score.value = Num(100)
        /\ RLe(Num(9), Complexity(report)) => ccn_score.value = Num(0)
        /\ \A other \in LizardReports :
              (Parses(other) /\ RLe(Complexity(report), Complexity(other)))
                  => RLe(extract_avg_ccn_from_lizard_output(other), ccn_score.value)

C15_Witness ==
    /\ lpc = "done"
    /\ Parses(report)
    /\ Complexity(report) = Rat(19, 10)
    /\ ccn_score.kind = "return"
    /\ ccn_score.value = Rat(8875, 100)

\* C16: for a report text without the average-complexity figure, the error text
\* of a failed run included, the function returns exactly 50.
C16_NeutralDefault ==
    (lpc = "done" /\ ~HasFigure(report)) =>
        ccn_score = [ kind |-> "return", value |-> Num(50) ]

C16_Witness ==
    /\ lpc = "done"
    /\ report = LizardErrorText
    /\ ccn_score = [ kind |-> "return", value |-> Num(50) ]

\* C17 as stated: for every report text the function returns a number in
\* [0,100] and never raises, also when the label is followed by a run of digits
\* and dots that is no decimal number.
C17_AsStated ==
    lpc = "done" => (ccn_score.kind = "return" /\ InRange(ccn_score.value, 0, 100))

\* The call has ended with ValueError on a run that is no number.
C17_ValueErrorRaised ==
    /\ lpc = "done"
    /\ HasFigure(report)
    /\ IsFault(Complexity(report))
    /\ ccn_score = [ kind |-> "raise", error |-> "ValueError" ]

-----------------------------------------------------------------------------
(* Properties of get_activity_score.                                       *)

ActivityAnswered == apc = "done"

EmptyAccount ==
    /\ activity_input.user_status = 200
    /\ activity_input.repos_status = 200
    /\ activity_input.repos = << >>

\* C18: for an account whose repository list is empty, get_activity_score
\* returns activity_score 0 and a breakdown with all five sub-scores 0, and no
\* ratio is evaluated (neither the age of the account nor a sub-score is
\* computed on the way).
C18_EmptyAccount ==
    (ActivityAnswered /\ EmptyAccount) =>
        /\ activity_response.status = 200
        /\ activity_response.activity_score = Num(0)
        /\ \A k \in { "commit_frequency", "recent_activity", "consistency",
                      "repository_activity", "growth_trend" } :
              activity_response.breakdown[k] = Num(0)
        /\ DOMAIN activity_response.breakdown
              = { "commit_frequency", "recent_activity", "consistency",
                  "repository_activity", "growth_trend" }
        /\ account_age_months = Num(0)
        /\ sub_scores = NoScores
        /\ final_score = Num(0)

C18_Witness ==
    /\ ActivityAnswered
    /\ EmptyAccount
    /\ ~activity_input.created_ok
    /\ activity_response.status = 200
    /\ activity_response.activity_score = Num(0)

\* 0.30*commit_frequency + 0.25*recent_activity + 0.20*consistency
\*   + 0.15*repository_activity + 0.10*growth_trend
ClaimedFinalScore ==
    RDiv(RAdd(RAdd(RAdd(RAdd(RMul(Num(30), sub_scores.commit_frequency),
                             RMul(Num(25), sub_scores.recent_activity)),
                        RMul(Num(20), sub_scores.consistency)),
                   RMul(Num(15), sub_scores.repository_activity)),
              RMul(Num(10), sub_scores.growth_trend)), Num(100))

\* An account with an age and at least one repository.
ScorableAccount ==
    /\ activity_input.user_status = 200
    /\ activity_input.repos_status = 200
    /\ activity_input.repos # << >>
    /\ activity_input.created_ok
    /\ activity_input.age_days >= 0

\* C19: for every account age >= 0, every non-empty repository list and every
\* recent-event list, each of the five sub-scores is in [0,100], and the final
\* score is the weighted sum with weights 0.30, 0.25, 0.20, 0.15, 0.10, hence
\* in [0,100]; so are the rounded values of the answer.
C19_ActivityScore ==
    (ActivityAnswered /\ ScorableAccount) =>
        /\ activity_response.status = 200
        /\ \A k \in DOMAIN sub_scores : InRange(sub_scores[k], 0, 100)
        /\ final_score = ClaimedFinalScore
        /\ InRange(final_score, 0, 100)
        /\ activity_response.activity_score = Round(final_score, 0)
        /\ InRange(activity_response.activity_score, 0, 100)
        /\ \A k \in DOMAIN sub_scores :
              /\ activity_response.breakdown[k] = Round(sub_scores[k], 0)
              /\ InRange(activity_response.breakdown[k], 0, 100)

C19_Witness ==
    /\ ActivityAnswered
    /\ ScorableAccount
    /\ total_commits > 50
    /\ sub_scores.commit_frequency = Num(100)
    /\ RLt(Num(0), sub_scores.growth_trend) /\ RLt(sub_scores.growth_trend, Num(100))
    /\ final_score # activity_response.activity_score
    /\ final_score = ClaimedFinalScore

-----------------------------------------------------------------------------
(* Properties of extract_skills_from_text.                                 *)

\* The keywords of every category of the table.
AllKeywords == UNION { Range(SKILL_PATTERNS[c]) : c \in DOMAIN SKILL_PATTERNS }

\* C20 as stated: the result is empty for empty or missing text; for any other
\* text it has no duplicates, holds every keyword of the table that occurs as a
\* substring of the lower-cased text, and holds nothing that is not such a
\* keyword (the word-boundary patterns add no skill outside the keyword table).
C20_AsStated ==
    spc = "done" =>
        IF text_input.is_none \/ text_input.value = << >>
        THEN found_skills = << >>
        ELSE /\ \A i, j \in DOMAIN found_skills : found_skills[i] = found_skills[j] => i = j
             /\ \A k \in AllKeywords :
                   Contains(k, Lower(text_input.value)) => k \in Range(found_skills)
             /\ \A x \in Range(found_skills) :
                   x \in AllKeywords /\ Contains(x, Lower(text_input.value))

\* The result holds a string that is no keyword of the table.
C20_SkillOutsideTable ==
    /\ spc = "done"
    /\ \E x \in Range(found_skills) : x \notin AllKeywords

-----------------------------------------------------------------------------
(* Properties of match_single_candidate on counts of any sign.             *)

\* The request holds a repository with a negative count.
NegativeCount ==
    /\ "top_repos" \in request.candidate_data.keys
    /\ \E i \in DOMAIN request.candidate_data.top_repos :
          \/ request.candidate_data.top_repos[i].stars < 0
          \/ request.candidate_data.top_repos[i].readme_length < 0

\* C21 as stated: given a repository with a negative star count or a negative
\* readme_length, match_single_candidate fails with a validation error and
\* returns no match score computed from the negative value.
C21_AsStated ==
    (mpc = "done" /\ NegativeCount) =>
        /\ response.status \in { 400, 422 }
        /\ "error" \in DOMAIN response
        /\ "total_match_percentage" \notin DOMAIN response

\* A request with a negative count is answered 200, here with a match
\* percentage below 0.
C21_ScoreFromNegative ==
    /\ mpc = "done"
    /\ NegativeCount
    /\ response.status = 200
    /\ \E i \in DOMAIN response.repo_matches :
          RLt(response.repo_matches[i].match_percentage, Num(0))

-----------------------------------------------------------------------------
(* Properties of score_code_readability, component by component.           *)

\* The lines of the file without their newline.
TextLines == SplitLines(file.content)

\* 15 if only one of space and tab indentation is used else 5, minus 0.5 per
\* mixed-indent line, floored at 0
ClaimedIndentation ==
    LET space_used == \E i \in DOMAIN TextLines : StartsWith(TextLines[i], << " ", " ", " ", " " >>)
        tab_used == \E i \in DOMAIN TextLines : StartsWith(TextLines[i], << "\t" >>)
        mixed == Cardinality({ i \in DOMAIN TextLines :
                    LET first8 == SubSeq(TextLines[i], 1, MinInt(8, Len(TextLines[i])))
                    IN  "\t" \in Range(first8) /\ " " \in Range(first8) })
        raw == RSub(IF space_used /\ tab_used THEN Num(5) ELSE Num(15), Rat(mixed, 2))
    IN  IF RLt(raw, Num(0)) THEN Num(0) ELSE raw

\* 25 if comment_lines/total_lines > 0.2, 15 if > 0.1, else 5
ClaimedComments ==
    LET comment_lines == detect_comment_lines(ReadLines(file.content), file.ext)
    IN  IF 10 * comment_lines > 2 * Len(TextLines) THEN Num(25)
        ELSE IF 10 * comment_lines > Len(TextLines) THEN Num(15) ELSE Num(5)

\* max(0, 10 - N), N the number of lines longer than 100 characters
ClaimedLongLines ==
    Num(MaxInt(0, 10 - Cardinality({ i \in DOMAIN TextLines : Len(TextLines[i]) > 100 })))

\* min(10, 10*blank_lines/total_lines)
ClaimedBlankLines ==
    LET blank_lines == Cardinality({ i \in DOMAIN TextLines : Strip(TextLines[i]) = << >> })
    IN  RMin(Num(10), Rat(10 * blank_lines, Len(TextLines)))

NonEmptyFileScored ==
    /\ fpc = "code"
    /\ file.decodable
    /\ file.content # << >>
    /\ "score" \in DOMAIN file_result

\* C22 as stated: for a non-empty file the score is the sum of the indentation
\* component, the comment component, max(0, 10 - N) with N the number of lines
\* longer than 100 characters (a line of exactly 100 characters followed by its
\* newline not counted), and min(10, 10*blank_lines/total_lines).
C22_AsStated ==
    NonEmptyFileScored =>
        /\ InRange(ClaimedIndentation, 0, 15)
        /\ file_result.score
              = RAdd(RAdd(RAdd(ClaimedIndentation, ClaimedComments), ClaimedLongLines),
                     ClaimedBlankLines)

\* A file whose only line has exactly 100 characters and a newline loses a
\* point for a long line.
C22_HundredCharactersCounted ==
    /\ NonEmptyFileScored
    /\ file.content = Rep("x", 100) \o << "\n" >>
    /\ file_result.structure_score = Num(9)
    /\ file_result.score = Num(29)

\* The components hold but for the newline: the score is the sum of the same
\* components, rounded to two decimals, when no line has exactly 100 characters
\* and a newline.
C22_SumButForNewline ==
    (NonEmptyFileScored
        /\ \A i \in DOMAIN ReadLines(file.content) : Len(ReadLines(file.content)[i]) # 101) =>
        file_result.score
            = Round(RAdd(RAdd(RAdd(ClaimedIndentation, ClaimedComments), ClaimedLongLines),
                         ClaimedBlankLines), 2)

-----------------------------------------------------------------------------
(* Properties of the semantic component of score_html_quality.             *)

HtmlFileScored ==
    /\ fpc = "html"
    /\ file.decodable
    /\ "score" \in DOMAIN file_result

\* The score of the same file with its semantic elements taken out.
ScoreWithoutSemantic ==
    score_html_quality([ file EXCEPT !.counts.semantic_count = 0 ]).score

\* 25 * min(k,5)/5
ClaimedSemantic(k) == Rat(25 * MinInt(k, 5), 5)

\* C23: the semantic component of score_html_quality is 25 * min(k,5)/5, k the
\* number of semantic elements found: the score of a file exceeds the score
\* of the same file without semantic elements by that amount, by 25 at k = 5,
\* and by no more for any further semantic element.
C23_SemanticComponent ==
    HtmlFileScored =>
        LET k == file.counts.semantic_count
        IN  /\ file_result.score = RAdd(ScoreWithoutSemantic, ClaimedSemantic(k))
            /\ k >= 5 => file_result.score = RAdd(ScoreWithoutSemantic, Num(25))
            /\ k < 5 => RLt(file_result.score, RAdd(ScoreWithoutSemantic, Num(25)))

\* A file with six semantic elements and nothing else to lose points on.
C23_Witness ==
    /\ HtmlFileScored
    /\ file.counts.semantic_count = 6
    /\ ScoreWithoutSemantic = Num(75)
    /\ file_result.score = Num(100)

-----------------------------------------------------------------------------
(* Properties of match_single_candidate_ai.                                *)

AiAnswered == gpc = "done" /\ ai_response.status = 200

AiPercentagesInRange ==
    /\ ai_response.total_match_percentage \in 0 .. 100
    /\ \A i \in DOMAIN ai_response.repo_matches :
          ai_response.repo_matches[i].match_percentage \in 0 .. 100

\* C24 as stated: every per-repository match_percentage and the
\* total_match_percentage returned are in [0,100], whatever integer the AI
\* source returns and also when the deterministic fallback is used.
C24_AsStated == AiAnswered => AiPercentagesInRange

\* The AI source answered 150 for a repository and the answer carries it.
C24_OutOfRangeReturned ==
    /\ AiAnswered
    /\ \E i \in DOMAIN ai_answers : ai_answers[i] = [ kind |-> "int", value |-> 150 ]
    /\ \E i \in DOMAIN ai_response.repo_matches :
          ai_response.repo_matches[i].match_percentage = 150

\* The fallback alone keeps the range: when every call of the AI source
\* failed, the percentages are in [0,100].
C24_FallbackInRange ==
    (AiAnswered /\ \A i \in DOMAIN ai_answers : ai_answers[i].kind = "raise") =>
        AiPercentagesInRange

-----------------------------------------------------------------------------
(* Properties of analyze_user_code_quality: the repository without         *)
(* supported files.                                                        *)

\* A repository that is cloned and holds no file of SUPPORTED_CODE_EXTS.
WithoutSourceFiles(repo) == ~repo.fork /\ repo.clone_ok /\ repo.files = << >>

\* Such a repository was cloned in the course of the call.
ClonedWithoutSourceFiles ==
    \E i \in 1 .. MinInt(next_repo + 1, Len(user_repos)) :
        /\ WithoutSourceFiles(user_repos[i])
        /\ (i = next_repo + 1) => user_outcome.kind = "raise"

\* C25 as stated: a non-fork repository that contains no supported source file
\* is skipped: its temporary directory is removed, no entry is added to the
\* results, the loop continues with the following repositories, and the
\* function still returns its summary.
C25_AsStated ==
    (upc = "done" /\ ClonedWithoutSourceFiles) =>
        /\ tmp_dirs = 0
        /\ user_outcome.kind = "return"
        /\ next_repo = Len(user_repos) \/ Len(results) >= MAX_REPOS
        /\ \A i \in DOMAIN results : ~WithoutSourceFiles(user_repos[results[i].repo])

\* The call ends at the repository without supported files: its directory is
\* removed, the second removal raises, a following repository is never reached
\* and no summary is returned.
C25_SecondRemovalRaises ==
    /\ upc = "done"
    /\ next_repo + 1 < Len(user_repos)
    /\ WithoutSourceFiles(user_repos[next_repo + 1])
    /\ tmp_dirs = 0
    /\ user_outcome = [ kind |-> "raise", error |-> "FileNotFoundError" ]

-----------------------------------------------------------------------------
(* Properties of the weight selection of analyze_repo_githired: which      *)
(* combinations a file tree can select.                                    *)

\* The extensions of SUPPORTED_CODE_EXTS that name a programming language.
ProgrammingExts == SUPPORTED_CODE_EXTS \ { "html", "xml" }

FilesOfTree == UNION { Range(repo_input.tree[i].files) : i \in DOMAIN repo_input.tree }

\* A tree with .html files that can be read, no stylesheet and no
\* programming-language source file.
MarkupOnlyTree ==
    /\ repo_input.clone_ok
    /\ \E f \in FilesOfTree : f.ext = "html" /\ f.decodable
    /\ \A f \in FilesOfTree : f.ext \notin ProgrammingExts \cup { "css" }

\* C26 as stated, for the combination it singles out: a tree that contains
\* .html files but no programming-language source files has has_code = false
\* and is scored with the markup-only weights (html = 0.85, lizard = 0).
C26_AsStated ==
    (Returned /\ MarkupOnlyTree) =>
        /\ lizard_scores = << >>
        /\ "weights_used" \in DOMAIN outcome
        /\ outcome.weights_used.html = Rat(85, 100)
        /\ outcome.weights_used.lizard = Num(0)

\* A tree of .html files only is scored as code with markup.
C26_MarkupScoredAsCode ==
    /\ rpc = "done"
    /\ outcome.kind = "return"
    /\ MarkupOnlyTree
    /\ lizard_scores # << >>
    /\ outcome.weights_used.lizard = Rat(5, 10)
    /\ outcome.weights_used.html = Rat(35, 100)

\* No tree selects a combination with has_html and without has_code: the
\* weights html = 0.85 and html = 0.45, css = 0.4 are never used.
C26_MarkupWithoutCodeNeverSelected ==
    html_scores # << >> => lizard_scores # << >>

-----------------------------------------------------------------------------
(* Properties of detect_comment_lines.                                     *)

\* The line starts with the language's line-comment marker.
StartsLineComment(line, syntax) ==
    syntax.line # << >> /\ StartsWith(Strip(line), syntax.line)

\* The line starts with the block-start marker.
StartsBlock(line, syntax) ==
    /\ syntax.block_start # << >> /\ syntax.block_end # << >>
    /\ StartsWith(Strip(line), syntax.block_start)

\* Line i lies inside a block comment: from a line that starts with the
\* block-start marker through the first line that contains the block-end
\* marker.
InsideBlock(lines, syntax, i) ==
    \E j \in 1 .. i :
        /\ StartsBlock(lines[j], syntax)
        /\ \A k \in j .. i - 1 : ~Contains(syntax.block_end, Strip(lines[k]))

\* The loop counts line i: the count after i lines exceeds the count before.
Counted(lines, ext, i) ==
    detect_comment_lines(SubSeq(lines, 1, i), ext)
        > detect_comment_lines(SubSeq(lines, 1, i - 1), ext)

\* C27 as stated: a line is counted only if it starts with the line-comment
\* marker or lies inside a block comment, which ends with the first line that
\* contains the block-end marker; and the count never exceeds the number of
\* lines.
C27_AsStated ==
    cpc = "done" =>
        LET lines == comment_input.lines
            syntax == SyntaxOf(comment_input.ext)
        IN  /\ \A i \in DOMAIN lines :
                  Counted(lines, comment_input.ext, i) =>
                      StartsLineComment(lines[i], syntax) \/ InsideBlock(lines, syntax, i)
            /\ comment_count <= Len(lines)

\* A block comment closed on a line that starts with the line-comment marker:
\* the statement after it is counted as a comment line.
C27_CountedAfterBlockEnd ==
    /\ cpc = "done"
    /\ comment_input.ext = "js"
    /\ comment_input.lines = << << "/", "*", " ", "a", "\n" >>,
                                << "/", "/", " ", "b", " ", "*", "/", "\n" >>,
                                << "x", " ", "=", " ", "1", "\n" >> >>
    /\ comment_count = 3

\* The count never exceeds the number of lines.
C27_CountWithinLines == cpc = "done" => comment_count \in 0 .. Len(comment_input.lines)

-----------------------------------------------------------------------------
(* Properties of analyze_user_code_quality: the limit MAX_REPOS.           *)

\* The repositories the loop has taken up so far.
TakenUp ==
    { i \in DOMAIN user_repos :
        \/ i <= next_repo
        \/ i = next_repo + 1 /\ (upc = "cloned" \/ user_outcome.kind = "raise") }

\* The repositories whose clone was made.
ClonedWell == { i \in TakenUp : ~user_repos[i].fork /\ user_repos[i].clone_ok }

\* C28 as stated: in one call no more than MAX_REPOS non-fork repositories are
\* cloned, and forks are never cloned.
C28_AsStated ==
    /\ Cardinality(ClonedWell) <= MAX_REPOS
    /\ cloned <= Cardinality({ i \in TakenUp : ~user_repos[i].fork })

\* Eleven repositories were cloned in one call: the first was dropped for a
\* file that could not be read, the next ten gave the ten results.
C28_ElevenCloned ==
    /\ UserReturned
    /\ Cardinality(ClonedWell) = MAX_REPOS + 1
    /\ cloned = MAX_REPOS + 1
    /\ Len(results) = MAX_REPOS
    /\ user_repos[1].files = << U_bad >>

\* What the test of line 51 does bound is the number of results; and a fork is
\* never cloned.
C28_ResultsWithinLimit ==
    /\ Len(results) <= MAX_REPOS
    /\ cloned <= Cardinality({ i \in TakenUp : ~user_repos[i].fork })

-----------------------------------------------------------------------------
(* Properties of analyze_repo_githired: its temporary directory.           *)

\* C29: the temporary directory created by analyze_repo_githired no longer
\* exists when the call ends, on every exit path: normal result, no-evidence
\* fallback return, and an exception raised by cloning or scoring. Until the
\* call ends the directory made by mkdtemp is there.
C29_TempDirRemoved ==
    /\ rpc = "done" => temp_dir = "removed"
    /\ rpc \in { "walk", "finally" } => temp_dir = "exists"

\* The call ended with the exception of a lizard report that float() refuses,
\* and the directory is gone.
C29_Witness ==
    /\ rpc = "done"
    /\ outcome = [ kind |-> "raise", error |-> "ValueError" ]
    /\ walked >= 1
    /\ temp_dir = "removed"

-----------------------------------------------------------------------------
(* Properties of analyze_user_repos and get_code_proficiency.              *)

ProfDone == ppc = "done" /\ prof_response.status = 200

\* The repositories whose analysis gave a result.
Succeeded ==
    { i \in prof_analysed : prof_input.repos[i].analysis.kind = "return" }

\* Their overall_score, in the order of the list.
SucceededScores ==
    LET repos == PickIndices(prof_input.repos, Succeeded)
    IN  [ i \in DOMAIN repos |-> repos[i].analysis.overall_score ]

\* A failure does not stop the loop: every repository that is no fork was
\* analysed, short of the limit of get_code_proficiency being met.
AnalysisGoesOn ==
    \A j \in DOMAIN prof_input.repos :
        \/ prof_input.repos[j].fork
        \/ j \in prof_analysed
        \/ /\ prof_input.function = "get_code_proficiency"
           /\ Cardinality({ i \in Succeeded : i < j }) >= PROFICIENCY_LIMIT

ForksNeverAnalysed == \A i \in prof_analysed : ~prof_input.repos[i].fork

\* x is y rounded to two decimals
RoundedToTwoDecimals(x, y) ==
    /\ ~IsFault(x)
    /\ 100 % x[2] = 0
    /\ RLe(RSub(y, Rat(1, 200)), x)
    /\ RLe(x, RAdd(y, Rat(1, 200)))

\* C30 as stated: a failure while analysing one repository does not stop the
\* analysis of the repositories after it; forks are never analysed; and
\* average_score is the mean of overall_score over exactly the repositories
\* analysed successfully (0 when there are none).
C30_AsStated ==
    ProfDone =>
        /\ AnalysisGoesOn
        /\ ForksNeverAnalysed
        /\ prof_response.average_score
              = IF Succeeded = { } THEN Num(0) ELSE Mean(SucceededScores)

\* C30, amended: the same, average_score being the mean rounded to two
\* decimals.
C30_AverageOfSucceeded ==
    ProfDone =>
        /\ AnalysisGoesOn
        /\ ForksNeverAnalysed
        /\ Len(prof_response.repo_scores) = Cardinality(Succeeded)
        /\ IF Succeeded = { } THEN prof_response.average_score = Num(0)
           ELSE RoundedToTwoDecimals(prof_response.average_score, Mean(SucceededScores))

\* A failed repository followed by analysed ones, with a mean of more than two
\* decimals.
C30_Witness ==
    /\ ProfDone
    /\ \E i \in prof_analysed :
          /\ prof_input.repos[i].analysis.kind = "raise"
          /\ \E j \in Succeeded : j > i
    /\ Cardinality(Succeeded) >= 2
    /\ prof_response.average_score # Mean(SucceededScores)

====
